---------------------------- MODULE Spec2Model ----------------------------
(***************************************************************************)
(* A state-machine model of the tree subsystem of GANDALF (SphTree.cpp):   *)
(* the rebuild / stock / extrapolate control of the three trees, the       *)
(* boundary ghost search, the MPI export lists and the export message.     *)
(*                                                                         *)
(* Real quantities (positions, velocities, smoothing lengths) are modelled *)
(* by integers in scaled units; every test of the code on them is a        *)
(* comparison of sums and products, which integers evaluate exactly.       *)
(***************************************************************************)
EXTENDS Integers, Sequences, FiniteSets, TLC

VARIABLES
  \* ---- tree build control (BuildTree, BuildGhostTree, BuildMpiGhostTree)
  bpc,          \* position in the step: which tree routine is called next
  bargs,        \* arguments of the calls of the step
  bsph,         \* the Sph counters the build routines read
  stree,        \* SphTree's own counters and buffers
  trees,        \* per tree: ifirst, ilast, Ntot, Ntotmax, Ntotmaxold
  treeops,      \* per tree: the operations the routine applied in this step
  \* ---- boundary ghost search (SearchBoundaryGhostParticles)
  gpc,          \* position in SearchBoundaryGhostParticles
  gcfg,         \* arguments of the call: tghost and the boundary kinds
  gsph,         \* the Sph counters: Nsph, Nghost, NPeriodicGhost, ...
  gpart,        \* the particle array sphdata (real particles, then ghosts)
  gtree,        \* the main tree: celldata, inext, Ncell, ltot
  gc,           \* the cell cursor c of the walk
  gi,           \* the particle cursor i of the leaf loop or of the direct sum
  glog,         \* the ghost checks of the call, in order: <<axis, particle>>
  gafter,       \* per axis: Nghost when the pass of the axis was over, or -1
  \* ---- export lists (UpdateGravityExportList, UpdateHydroExportList,
  \*      GetExportInfo)
  epc,          \* position of the process in the export pass
  ert,          \* the routine that runs: "gravity" or "hydro"
  ecfg,         \* the active cells and what the peers' pruned trees answer
  Ncellexport,  \* per process: the number of cells to export to it
  Npartexport,  \* per process: the number of particles to export to it
  cellexportlist, \* per process: the cells to export to it
  eiter,        \* the next iteration of the parallel cell loop not yet taken
  eth,          \* per worker: its position and its private variables
  sphdata,      \* the fields a, agrav, gpot of the particles
  eproc,        \* per active cell: the workers that took it
  ewriter,      \* per particle: the workers that wrote its fields
  send_buffer,  \* the send buffer: its size and the records written to it
  ids_sent_particles, \* per process: the ids of the particles sent to it
  epack,        \* the last call of GetExportInfo
  enproc,       \* the process the next call of GetExportInfo packs for
  \* ---- neighbour search (GetGatherNeighbourList)
  npc,          \* position of the caller of the neighbour search
  nq,           \* the query: rp, rsearch, Nneibmax
  nres,         \* the result: Nneib and neiblist
  \* ---- the exchange between the processes (GetExportInfo, UnpackExported,
  \*      GetBackExportInfo, UnpackReturnedExportInfo)
  xcfg,         \* the export lists, the build and the capacities
  xpc,          \* per process: the call of the exchange it makes next
  xsph,         \* per process: the counters of Sph and the particle array
  xtree,        \* per process: the counters of the tree, celldata, inext
  xmpi,         \* per process: ids_sent_particles, N_imported_part_per_proc,
                \* the messages it sent and the blocks it returned
  xlog,         \* per process: what its calls of the exchange read and wrote
  \* ---- pruned trees (BuildPrunedTree)
  ppc,          \* position in the step: tree build, pruning, done
  pn,           \* the step
  pruning_level, \* the argument pruning_level of the run
  ptree,        \* the local tree: ltot, Ncell, celldata
  prunedtree,   \* per process: ltot, ltot_old, gmax, Ncellmax, Ncell, celldata
  Nprunedcellmax, \* the sum of the Ncellmax of the pruned trees
  \* ---- the exchange of the pruned trees (CommunicatePrunedTrees)
  my_matches,   \* per process: the processes it meets, turn by turn
  cst,          \* per process: its position, iturn, i and send_turn
  ctree,        \* per process: the cells of its pruned trees, one per process
  channel,      \* per pair of processes: the messages sent and not yet taken
  clog,         \* per process: the sends and receives it has completed
  \* ---- the simulation and its start (SphSimulation, Parameters, main)
  sim,          \* SphSimulation: its position, members and particles
  prm,          \* Parameters: intparams, floatparams, stringparams
  pp,           \* ProcessParameters and GenerateIC: the objects created
  mainp,        \* main: per process, its position and how it ended
  \* ---- checks and load balancing (SphTree)
  chk,          \* CheckValidNeighbourList: its arguments and its outcome
  lb,           \* FindLoadBalancingDivision: its locals
  \* ---- tree walks and neighbour buffers (SphTree)
  wk,           \* a skip-pointer walk: its tree, its cursor and its lists
  mem           \* the neighbour buffers: what is allocated and what was freed

buildVars == <<bpc, bargs, bsph, stree, trees, treeops>>
ghostVars == <<gpc, gcfg, gsph, gpart, gtree, gc, gi, glog, gafter>>

exportVars == <<epc, ert, ecfg, Ncellexport, Npartexport, cellexportlist,
                eiter, eth, sphdata, eproc, ewriter, send_buffer,
                ids_sent_particles, epack, enproc>>

neibVars == <<npc, nq, nres>>

exchangeVars == <<xcfg, xpc, xsph, xtree, xmpi, xlog>>

prunedVars == <<ppc, pn, pruning_level, ptree, prunedtree, Nprunedcellmax>>

commVars == <<my_matches, cst, ctree, channel, clog>>

driverVars == <<sim, prm, pp, mainp, chk, lb, wk, mem>>

vars == <<bpc, bargs, bsph, stree, trees, treeops,
          gpc, gcfg, gsph, gpart, gtree, gc, gi, glog, gafter,
          epc, ert, ecfg, Ncellexport, Npartexport, cellexportlist,
          eiter, eth, sphdata, eproc, ewriter, send_buffer,
          ids_sent_particles, epack, enproc,
          npc, nq, nres,
          xcfg, xpc, xsph, xtree, xmpi, xlog,
          ppc, pn, pruning_level, ptree, prunedtree, Nprunedcellmax,
          my_matches, cst, ctree, channel, clog,
          sim, prm, pp, mainp, chk, lb, wk, mem>>

Max(a, b) == IF a >= b THEN a ELSE b
Min(a, b) == IF a <= b THEN a ELSE b

(***************************************************************************)
(* Tree build control                                                      *)
(***************************************************************************)

\* Bounds of the build model.
MaxStep == 3          \* integer times n = 0 .. MaxStep
MaxCadence == 2       \* ntreebuildstep, ntreestockstep in 1 .. MaxCadence
MaxNsphB == 2         \* Nsph in 1 .. MaxNsphB in the build model

TreeNames == {"tree", "ghosttree", "mpighosttree"}

\* A wrong variant of BuildTreeMode, to compare against: a stock takes precedence over a rebuild.
BuildTreeModeStockFirst(rebuild_tree, nn, ntreebuildstep, ntreestockstep) ==
  IF nn % ntreestockstep = 0 THEN "stock"
  ELSE IF nn % ntreebuildstep = 0 \/ rebuild_tree THEN "rebuild"
  ELSE "extrapolate"

\* if (n%ntreebuildstep == 0 || rebuild_tree) ... else if (n%ntreestockstep
\* == 0) ... else ...   of SphTree::BuildTree
BuildTreeMode(rebuild_tree, nn, ntreebuildstep, ntreestockstep) ==
  IF nn % ntreebuildstep = 0 \/ rebuild_tree THEN "rebuild"
  ELSE IF nn % ntreestockstep = 0 THEN "stock"
  ELSE "extrapolate"

\* the same selection in SphTree::BuildGhostTree
BuildGhostTreeMode(rebuild_tree, nn, ntreebuildstep, ntreestockstep) ==
  IF nn % ntreebuildstep = 0 \/ rebuild_tree THEN "rebuild"
  ELSE IF nn % ntreestockstep = 0 THEN "stock"
  ELSE "extrapolate"

\* the same selection in SphTree::BuildMpiGhostTree
BuildMpiGhostTreeMode(rebuild_tree, nn, ntreebuildstep, ntreestockstep) ==
  IF nn % ntreebuildstep = 0 \/ rebuild_tree THEN "rebuild"
  ELSE IF nn % ntreestockstep = 0 THEN "stock"
  ELSE "extrapolate"

\* A tree before its first build.
EmptyTree == [ifirst |-> 0, ilast |-> -1, Ntot |-> 0, Ntotmax |-> 0,
              Ntotmaxold |-> 0]

\* A wrong variant of RebuildRange, to compare against: every tree starts
\* at the head of the array.
RebuildRangeFromZero(t, first, count, Nsphmax) ==
  [ifirst |-> 0, ilast |-> count - 1, Ntot |-> count,
   Ntotmaxold |-> t.Ntotmax,
   Ntotmax |-> Max(Max(t.Ntotmax, count), Nsphmax)]

\* The rebuild branch's assignments to a tree object: first and last index,
\* Ntot, and the growing Ntotmax.
RebuildRange(t, first, count, Nsphmax) ==
  [ifirst |-> first, ilast |-> first + count - 1, Ntot |-> count,
   Ntotmaxold |-> t.Ntotmax,
   Ntotmax |-> Max(Max(t.Ntotmax, count), Nsphmax)]

\* SphTree::AllocateMemory: the per-thread buffers are allocated once, with
\* levelneibbuf of the Ntotmax of that moment.
AllocateMemory(s) ==
  IF ~s.allocated_buffer
    THEN [s EXCEPT !.allocated_buffer = TRUE, !.levelneibcap = s.Ntotmax]
    ELSE s

\* The Sph counters a step may present to the build routines.
BuildSphStates ==
  { [Nsph |-> ns, NPeriodicGhost |-> ng, Nmpighost |-> nm,
     Ntot |-> ns + ng + nm, Nsphmax |-> ns + ng + nm + sp] :
       ns \in 1..MaxNsphB, ng \in 0..1, nm \in {0}, sp \in 0..1 }
  \cup
  { [Nsph |-> ns, NPeriodicGhost |-> 1, Nmpighost |-> 1,
     Ntot |-> ns + 2, Nsphmax |-> ns + 2 + sp] :
       ns \in 1..MaxNsphB, sp \in 0..1 }

BuildArgs ==
  [rebuild_tree : BOOLEAN, n : 0..MaxStep,
   ntreebuildstep : 1..MaxCadence, ntreestockstep : 1..MaxCadence]

InitBuildVars ==
  /\ bpc = "BuildTree"
  /\ bargs \in {a \in BuildArgs : a.n = 0}
  /\ bsph \in BuildSphStates
  /\ stree = [Ntot |-> 0, Ntotold |-> 0, Ntotmax |-> 0, Ntotmaxold |-> 0,
              allocated_buffer |-> FALSE, levelneibcap |-> 0,
              cellexportcap |-> 0]
  /\ trees = [t \in TreeNames |-> EmptyTree]
  /\ treeops = [t \in TreeNames |-> <<>>]

\* The build model at rest, for the specifications of the other routines.
IdleBuild ==
  /\ bpc = "idle"
  /\ bargs = [rebuild_tree |-> FALSE, n |-> 0, ntreebuildstep |-> 1,
              ntreestockstep |-> 1]
  /\ bsph = [Nsph |-> 0, NPeriodicGhost |-> 0, Nmpighost |-> 0, Ntot |-> 0,
             Nsphmax |-> 0]
  /\ stree = [Ntot |-> 0, Ntotold |-> 0, Ntotmax |-> 0, Ntotmaxold |-> 0,
              allocated_buffer |-> FALSE, levelneibcap |-> 0,
              cellexportcap |-> 0]
  /\ trees = [t \in TreeNames |-> EmptyTree]
  /\ treeops = [t \in TreeNames |-> <<>>]

\* SphTree::BuildTree(rebuild_tree, n, ntreebuildstep, ntreestockstep, ...)
BuildTree ==
  /\ bpc = "BuildTree"
  /\ LET mode == BuildTreeMode(bargs.rebuild_tree, bargs.n,
                               bargs.ntreebuildstep, bargs.ntreestockstep)
     IN /\ treeops' = [treeops EXCEPT !["tree"] = Append(@, mode)]
        /\ IF mode = "rebuild"
             THEN LET s1 == [stree EXCEPT
                               !.Ntotold = stree.Ntot,
                               !.Ntot = bsph.Ntot,
                               !.Ntotmaxold = stree.Ntotmax,
                               !.Ntotmax = Max(Max(stree.Ntotmax, bsph.Ntot),
                                               bsph.Nsphmax)]
                      s2 == AllocateMemory(s1)
                  IN /\ trees' = [trees EXCEPT !["tree"] =
                                    RebuildRange(@, 0, bsph.Nsph, bsph.Nsphmax)]
                     /\ stree' = IF s2.Ntotmax > s2.Ntotmaxold
                                   THEN [s2 EXCEPT !.cellexportcap = s2.Ntotmax]
                                   ELSE s2
             ELSE UNCHANGED <<trees, stree>>
  /\ bpc' = "BuildGhostTree"
  /\ UNCHANGED <<bargs, bsph>>

\* SphTree::BuildGhostTree with the arguments of the step
BuildGhostTree ==
  /\ bpc = "BuildGhostTree"
  /\ LET mode == BuildGhostTreeMode(bargs.rebuild_tree, bargs.n,
                                    bargs.ntreebuildstep, bargs.ntreestockstep)
     IN /\ treeops' = [treeops EXCEPT !["ghosttree"] = Append(@, mode)]
        /\ IF mode = "rebuild"
             THEN trees' = [trees EXCEPT !["ghosttree"] =
                              RebuildRange(@, bsph.Nsph, bsph.NPeriodicGhost,
                                           bsph.Nsphmax)]
             ELSE UNCHANGED trees
  /\ bpc' = "BuildMpiGhostTree"
  /\ UNCHANGED <<bargs, bsph, stree>>

\* SphTree::BuildMpiGhostTree with the arguments of the step
BuildMpiGhostTree ==
  /\ bpc = "BuildMpiGhostTree"
  /\ LET mode == BuildMpiGhostTreeMode(bargs.rebuild_tree, bargs.n,
                                       bargs.ntreebuildstep,
                                       bargs.ntreestockstep)
     IN /\ treeops' = [treeops EXCEPT !["mpighosttree"] = Append(@, mode)]
        /\ IF mode = "rebuild"
             THEN trees' = [trees EXCEPT !["mpighosttree"] =
                              RebuildRange(@, bsph.Nsph + bsph.NPeriodicGhost,
                                           bsph.Nmpighost, bsph.Nsphmax)]
             ELSE UNCHANGED trees
  /\ bpc' = "StepDone"
  /\ UNCHANGED <<bargs, bsph, stree>>

\* The caller's next step: the integer time advances, the particle counters
\* and the rebuild flag are the environment's.
NextStep ==
  /\ bpc = "StepDone"
  /\ bargs.n < MaxStep
  /\ \E rb \in BOOLEAN :
       bargs' = [bargs EXCEPT !.n = bargs.n + 1, !.rebuild_tree = rb]
  /\ bsph' \in BuildSphStates
  /\ treeops' = [t \in TreeNames |-> <<>>]
  /\ bpc' = "BuildTree"
  /\ UNCHANGED <<stree, trees>>

(***************************************************************************)
(* The tree and the particles the walks read                               *)
(***************************************************************************)

\* Bounds of the tree model.
MaxNsph == 2          \* the tree holds at most MaxNsph real particles

\* tree->ltot of the trees of the model: root, two inner cells, four leaves.
ltot == 2
\* Nleafmax of the trees of the model.
Nleafmax == 2
\* The template parameter ndim of the instantiation that is modelled.
ndim == 3

Dims == 1..ndim

RECURSIVE Pow2(_)
Pow2(k) == IF k = 0 THEN 1 ELSE 2 * Pow2(k - 1)

\* The cells are stored in depth-first order: a cell, its first child's
\* subtree, its second child's subtree.
RECURSIVE LevelSeq(_)
LevelSeq(l) ==
  IF l = ltot THEN <<l>> ELSE <<l>> \o LevelSeq(l + 1) \o LevelSeq(l + 1)

TreeNcell == Pow2(ltot + 1) - 1
CellIds == 0 .. (TreeNcell - 1)
CellLevel(c) == LevelSeq(0)[c + 1]
\* the skip pointer: the next cell outside the cell's own subtree
CellNext(c) == c + Pow2(ltot - CellLevel(c) + 1) - 1
LeafCells == {c \in CellIds : CellLevel(c) = ltot}
\* the number of leaves before leaf cell c, in storage order
LeafRank(c) == Cardinality({d \in LeafCells : d < c})

\* Particle kinds of the model, in a box [0,16]^3 with h = 2: a static
\* corner particle, a particle that reaches the left x face only by its
\* velocity, a particle that reaches the right x face only by its velocity.
PartKinds ==
  { [r |-> <<1, 1, 1>>, v |-> <<0, 0, 0>>, h |-> 2, active |-> TRUE],
    [r |-> <<4, 8, 8>>, v |-> <<-4, 0, 0>>, h |-> 2, active |-> FALSE],
    [r |-> <<12, 8, 8>>, v |-> <<4, 0, 0>>, h |-> 2, active |-> TRUE] }

BIG == 1000

RECURSIVE SumSeq(_)
SumSeq(q) == IF q = <<>> THEN 0 ELSE Head(q) + SumSeq(Tail(q))

SetMin(S) == CHOOSE x \in S : \A y \in S : x <= y
SetMax(S) == CHOOSE x \in S : \A y \in S : x >= y

RECURSIVE SumV(_, _, _)
SumV(parts, ids, k) ==
  IF ids = {} THEN 0
  ELSE LET i == CHOOSE j \in ids : TRUE
       IN parts[i + 1].v[k] + SumV(parts, ids \ {i}, k)

\* The shapes of a tree: the number of particles of each leaf, in storage
\* order of the leaves.
LeafSizes ==
  { q \in [1..Pow2(ltot) -> 0..Nleafmax] :
      SumSeq(q) <= MaxNsph }

\* The particles of a tree are numbered against the storage order of the
\* leaves (the first leaf holds the highest ids), so that the linked list
\* inext, not index arithmetic, is what threads a leaf's particles.
\* Position t (0-based) in leaf order holds particle id n-1-t.
LeafIds(sizes, rank) ==
  LET n == SumSeq(sizes)
      before == SumSeq(SubSeq(sizes, 1, rank))
  IN { n - 1 - t : t \in before .. (before + sizes[rank + 1] - 1) }

\* ids of the particles in the subtree of cell c
CellIdsOf(sizes, c) ==
  UNION { LeafIds(sizes, LeafRank(d)) :
            d \in {e \in LeafCells : e >= c /\ e < CellNext(c)} }

\* A stocked cell: particle count, bounding box, maximum smoothing length and
\* the cell velocity (the mean velocity of its particles, kept as the sum
\* vsum over the count N), first and last particle and the links.
StockCell(parts, sizes, c) ==
  LET ids == CellIdsOf(sizes, c)
  IN [level |-> CellLevel(c),
      cnext |-> CellNext(c),
      N |-> Cardinality(ids),
      Nactive |-> Cardinality({i \in ids : parts[i + 1].active}),
      ifirst |-> IF ids = {} THEN -1 ELSE SetMax(ids),
      ilast |-> IF ids = {} THEN -1 ELSE SetMin(ids),
      bbmin |-> [k \in Dims |-> IF ids = {} THEN BIG
                   ELSE SetMin({parts[i + 1].r[k] : i \in ids})],
      bbmax |-> [k \in Dims |-> IF ids = {} THEN -BIG
                   ELSE SetMax({parts[i + 1].r[k] : i \in ids})],
      hmax |-> IF ids = {} THEN 0 ELSE SetMax({parts[i + 1].h : i \in ids}),
      vsum |-> [k \in Dims |-> SumV(parts, ids, k)]]

\* tree->inext: the next particle of the same leaf, -1 after the last one
InextOf(sizes) ==
  [i \in 0 .. (SumSeq(sizes) - 1) |->
     IF \E d \in LeafCells : i \in LeafIds(sizes, LeafRank(d))
                               /\ (i - 1) \in LeafIds(sizes, LeafRank(d))
       THEN i - 1 ELSE -1]

\* The tree after a build and a stock of the particles parts.
StockedTree(parts, sizes) ==
  [Ncell |-> TreeNcell,
   ltot |-> ltot,
   celldata |-> [c \in CellIds |-> StockCell(parts, sizes, c)],
   inext |-> InextOf(sizes)]

\* The particle arrays and trees of the model: every shape, every choice
\* of kinds. iorig is the particle's own id.
TreeInputs ==
  UNION { { [sizes |-> q, parts |-> ps] : ps \in [1..SumSeq(q) -> PartKinds] } :
            q \in LeafSizes }

WithOrigin(ps) ==
  [j \in 1..Len(ps) |->
     [r |-> ps[j].r, v |-> ps[j].v, h |-> ps[j].h, active |-> ps[j].active,
      iorig |-> j - 1]]



(***************************************************************************)
(* SearchBoundaryGhostParticles                                            *)
(***************************************************************************)

\* Bounds of the ghost model.
SpareCap == 4         \* Nsphmax - Nsph of the particle array

\* simbox.boxmin[k], simbox.boxmax[k] of the model's domain, for every k.
BoxMin == 0
BoxMax == 16
\* grange = ghost_range*kernrange, in the units of the model.
grange == 1

\* The boundary kinds of one axis: lhs and rhs.
OpenOpen == [lhs |-> "open", rhs |-> "open"]
Periodic == [lhs |-> "periodic", rhs |-> "periodic"]
Mirror == [lhs |-> "mirror", rhs |-> "mirror"]
OpenMirror == [lhs |-> "open", rhs |-> "mirror"]

\* The calls of the model: the ghost lifetime and the simulation box.
GhostCalls ==
  { [tghost |-> t, bnd |-> <<bx, by, bz>>] :
      t \in {0, 1},
      bx \in {OpenOpen, Periodic, OpenMirror},
      by \in {OpenOpen, Mirror},
      bz \in {OpenOpen, Periodic} }

At(where, k) == [at |-> where, axis |-> k]

\* if (x_boundary_lhs == "open" && ... && z_boundary_rhs == "open") return;
AllOpen(bnd) == \A k \in 1..3 : bnd[k].lhs = "open" /\ bnd[k].rhs = "open"

\* The guards of the three passes:
\*   if ((simbox.x_boundary_lhs == "open" && simbox.x_boundary_rhs == "open") == 0)
\*   if (ndim >= 2 && (... y ...) == 0)      if (ndim == 3 && (... z ...) == 0)
PassEnabled(bnd, k) ==
  /\ ~(bnd[k].lhs = "open" /\ bnd[k].rhs = "open")
  /\ CASE k = 1 -> TRUE
       [] k = 2 -> ndim >= 2
       [] k = 3 -> ndim = 3

\* A wrong variant of CellOverlapsEdge, to compare against: only the lhs face is tested.
CellOverlapsEdgeLhsOnly(cell, k, tghost) ==
  LET den == Max(cell.N, 1)
  IN den * cell.bbmin[k] + Min(0, cell.vsum[k] * tghost)
       < den * (BoxMin + grange * cell.hmax)

\* The opening test of a cell on axis k:
\*   bbmin[k] + min(0.0, v[k]*tghost) < boxmin[k] + grange*hmax ||
\*   bbmax[k] + max(0.0, v[k]*tghost) > boxmax[k] - grange*hmax
\* with the cell velocity v = vsum/N, both sides multiplied by N.
CellOverlapsEdge(cell, k, tghost) ==
  LET den == Max(cell.N, 1)
  IN \/ den * cell.bbmin[k] + Min(0, cell.vsum[k] * tghost)
          < den * (BoxMin + grange * cell.hmax)
     \/ den * cell.bbmax[k] + Max(0, cell.vsum[k] * tghost)
          > den * (BoxMax - grange * cell.hmax)

\* Sph::CreateBoundaryGhostParticle: the image of particle p on axis k is
\* written at index Nsph + Nghost and Nghost grows by one.
GhostImage(p, k, rk, vk) ==
  [p EXCEPT !.r = [p.r EXCEPT ![k] = rk], !.v = [p.v EXCEPT ![k] = vk]]

WriteAt(arr, idx, rec) ==
  IF idx + 1 <= Len(arr) THEN [arr EXCEPT ![idx + 1] = rec]
  ELSE Append(arr, rec)

CreateGhost(st, rec) ==
  [part |-> WriteAt(st.part, st.Nsph + st.Nghost, rec),
   Nsph |-> st.Nsph, Nghost |-> st.Nghost + 1]

\* Sph::CheckXBoundaryGhostParticle (k = 1), CheckY.. (2), CheckZ.. (3): a
\* particle within grange*h of a non-open face of axis k, now or within
\* tghost, gets its periodic or mirror image behind that face.
CheckBoundaryGhostParticle(st, i, k, tghost, bnd) ==
  LET p == st.part[i + 1]
      nearL == p.r[k] + Min(0, p.v[k] * tghost) < BoxMin + grange * p.h
      nearR == p.r[k] + Max(0, p.v[k] * tghost) > BoxMax - grange * p.h
      s1 == IF nearL /\ bnd[k].lhs = "periodic"
              THEN CreateGhost(st, GhostImage(p, k, p.r[k] + (BoxMax - BoxMin),
                                              p.v[k]))
            ELSE IF nearL /\ bnd[k].lhs = "mirror"
              THEN CreateGhost(st, GhostImage(p, k, 2 * BoxMin - p.r[k],
                                              -p.v[k]))
            ELSE st
      s2 == IF nearR /\ bnd[k].rhs = "periodic"
              THEN CreateGhost(s1, GhostImage(p, k, p.r[k] - (BoxMax - BoxMin),
                                              p.v[k]))
            ELSE IF nearR /\ bnd[k].rhs = "mirror"
              THEN CreateGhost(s1, GhostImage(p, k, 2 * BoxMax - p.r[k],
                                              -p.v[k]))
            ELSE s1
  IN s2

\* The counters left by an earlier step, before the call.
StaleCounters(nsph, g) ==
  [Nsph |-> nsph, Nghost |-> g, NPeriodicGhost |-> g, Nmpighost |-> g,
   Nghostmax |-> 0, Ntot |-> nsph + 2 * g, Nsphmax |-> nsph + SpareCap]

\* The ghosts left in the particle array by an earlier step, behind the real
\* particles; iorig = -1 marks them in the model.
StaleGhosts(g) ==
  [j \in 1..g |->
     [r |-> <<0, 0, 0>>, v |-> <<0, 0, 0>>, h |-> 2, active |-> FALSE,
      iorig |-> -1]]

InitGhostVars ==
  \E inp \in TreeInputs, g \in {0, 1} :
    /\ gpart = WithOrigin(inp.parts) \o StaleGhosts(g)
    /\ gtree = StockedTree(inp.parts, inp.sizes)
    /\ gsph = StaleCounters(Len(inp.parts), g)
    /\ gpc = At("start", 0)
    /\ gcfg = [tghost |-> 0, bnd |-> <<OpenOpen, OpenOpen, OpenOpen>>]
    /\ gc = 0
    /\ gi = 0
    /\ glog = <<>>
    /\ gafter = [k \in 1..3 |-> -1]

IdleGhost ==
  /\ gpart = <<>>
  /\ gtree = [Ncell |-> 0, ltot |-> 0, celldata |-> <<>>, inext |-> <<>>]
  /\ gsph = StaleCounters(0, 0)
  /\ gpc = At("idle", 0)
  /\ gcfg = [tghost |-> 0, bnd |-> <<OpenOpen, OpenOpen, OpenOpen>>]
  /\ gc = 0
  /\ gi = 0
  /\ glog = <<>>
  /\ gafter = [k \in 1..3 |-> -1]

\* A wrong variant of ResetCounters, to compare against: the ghost counters are not reset.
ResetCountersKeepGhosts(s) ==
  [s EXCEPT !.Nghostmax = s.Nsphmax - s.Nsph, !.Ntot = s.Nsph]

\* The assignments at the head of the routine.
ResetCounters(s) ==
  [s EXCEPT !.Nghost = 0, !.NPeriodicGhost = 0, !.Nmpighost = 0,
            !.Nghostmax = s.Nsphmax - s.Nsph, !.Ntot = s.Nsph]

\* Entry: set all relevant particle counters; with all boundaries open,
\* return at once.
GhostCall ==
  /\ gpc = At("start", 0)
  /\ \E cfg \in GhostCalls :
       /\ gcfg' = cfg
       /\ gpc' = IF AllOpen(cfg.bnd) THEN At("returned", 0) ELSE At("begin", 1)
  /\ gsph' = ResetCounters(gsph)
  /\ glog' = <<>>
  /\ UNCHANGED <<gpart, gtree, gc, gi, gafter>>

\* The guard of the pass of axis k; a pass starts from the root cell.
PassBegin(k) ==
  /\ gpc = At("begin", k)
  /\ IF PassEnabled(gcfg.bnd, k)
       THEN gpc' = At("walk", k) /\ gc' = 0 /\ UNCHANGED gafter
       ELSE /\ gpc' = IF k = 3 THEN At("check", 0) ELSE At("begin", k + 1)
            /\ gafter' = [gafter EXCEPT ![k] = gsph.Nghost]
            /\ UNCHANGED gc
  /\ UNCHANGED <<gcfg, gsph, gpart, gtree, gi, glog>>

\* One iteration of  while (c < tree->Ncell)  that does not enter a leaf's
\* particle loop.
WalkTarget(cell, c, k, tghost) ==
  IF CellOverlapsEdge(cell, k, tghost)
    THEN IF cell.level # gtree.ltot THEN c + 1
         ELSE IF cell.N = 0 THEN cell.cnext
         ELSE -1                      \* a leaf with particles: enter it
    ELSE cell.cnext

WalkCell(k) ==
  /\ gpc = At("walk", k)
  /\ gc < gtree.Ncell
  /\ LET t == WalkTarget(gtree.celldata[gc], gc, k, gcfg.tghost)
     IN IF t = -1
          THEN /\ gi' = gtree.celldata[gc].ifirst
               /\ gpc' = At("leaf", k)
               /\ UNCHANGED gc
          ELSE /\ gc' = t
               /\ UNCHANGED <<gi, gpc>>
  /\ UNCHANGED <<gcfg, gsph, gpart, gtree, glog, gafter>>

\* The ghost check of particle i on axis k, on the array and the counters.
ApplyCheck(i, k) ==
  LET st == CheckBoundaryGhostParticle(
              [part |-> gpart, Nsph |-> gsph.Nsph, Nghost |-> gsph.Nghost],
              i, k, gcfg.tghost, gcfg.bnd)
  IN /\ gpart' = st.part
     /\ gsph' = [gsph EXCEPT !.Nghost = st.Nghost]
     /\ glog' = Append(glog, <<k, i>>)

\* A wrong variant of LeafAdvance, to compare against: the next particle is taken by index, not through inext.
LeafAdvanceByIndex(cell, i) == IF i = cell.ilast THEN -1 ELSE i + 1

\* The step of the leaf loop after the check of particle i:
\*   if (i == cellptr->ilast) break;  i = tree->inext[i];
LeafAdvance(cell, i) == IF i = cell.ilast THEN -1 ELSE gtree.inext[i]

\* One iteration of the particle loop of a leaf:  while (i != -1) { ... }
\* and, at its end,  c = cellptr->cnext.
LeafParticle(k) ==
  /\ gpc = At("leaf", k)
  /\ ApplyCheck(gi, k)
  /\ LET nxt == LeafAdvance(gtree.celldata[gc], gi)
     IN IF nxt = -1
          THEN /\ gc' = gtree.celldata[gc].cnext
               /\ gpc' = At("walk", k)
               /\ UNCHANGED gi
          ELSE /\ gi' = nxt
               /\ UNCHANGED <<gc, gpc>>
  /\ UNCHANGED <<gcfg, gtree, gafter>>

\* A wrong variant of HasDirectSum, to compare against: no pass scans the earlier ghosts.
NoDirectSum(k) == FALSE

\* Whether the pass of axis k checks the ghosts of the earlier passes by
\* direct sum after its walk (the y and the z pass do, the x pass has none).
HasDirectSum(k) == k >= 2

\* The end of the walk of axis k.
WalkEnd(k) ==
  /\ gpc = At("walk", k)
  /\ gc >= gtree.Ncell
  /\ IF HasDirectSum(k)
       THEN /\ gi' = gsph.Nsph
            /\ gpc' = At("scan", k)
            /\ UNCHANGED <<gsph, gafter>>
       ELSE /\ gsph' = [gsph EXCEPT !.Ntot = gsph.Nsph + gsph.Nghost]
            /\ gpc' = IF k = 3 THEN At("check", 0) ELSE At("begin", k + 1)
            /\ gafter' = [gafter EXCEPT ![k] = gsph.Nghost]
            /\ UNCHANGED gi
  /\ UNCHANGED <<gcfg, gpart, gtree, gc, glog>>

\* One iteration of  for (i=sph->Nsph; i<sph->Ntot; i++)  of axis k.
DirectSumGhost(k) ==
  /\ gpc = At("scan", k)
  /\ gi < gsph.Ntot
  /\ ApplyCheck(gi, k)
  /\ gi' = gi + 1
  /\ UNCHANGED <<gpc, gcfg, gtree, gc, gafter>>

\* The end of the direct sum of axis k:  sph->Ntot = sph->Nsph + sph->Nghost
DirectSumEnd(k) ==
  /\ gpc = At("scan", k)
  /\ gi >= gsph.Ntot
  /\ gsph' = [gsph EXCEPT !.Ntot = gsph.Nsph + gsph.Nghost]
  /\ gpc' = IF k = 3 THEN At("check", 0) ELSE At("begin", k + 1)
  /\ gafter' = [gafter EXCEPT ![k] = gsph.Nghost]
  /\ UNCHANGED <<gcfg, gpart, gtree, gc, gi, glog>>

\* A wrong variant of OutOfGhostMemory, to compare against: the capacity is never exceeded.
OutOfGhostMemoryNever(s) == FALSE

\* if (sph->Ntot > sph->Nsphmax) raise("Not enough memory for ghost
\* particles");  sph->NPeriodicGhost = sph->Nghost;
OutOfGhostMemory(s) == s.Ntot > s.Nsphmax

CapacityCheck ==
  /\ gpc = At("check", 0)
  /\ IF OutOfGhostMemory(gsph)
       THEN gpc' = At("raised", 0) /\ UNCHANGED gsph
       ELSE /\ gpc' = At("returned", 0)
            /\ gsph' = [gsph EXCEPT !.NPeriodicGhost = gsph.Nghost]
  /\ UNCHANGED <<gcfg, gpart, gtree, gc, gi, glog, gafter>>

(***************************************************************************)
(* UpdateGravityExportList, UpdateHydroExportList and GetExportInfo        *)
(***************************************************************************)

\* Bounds of the export model.
MaxActive == 2        \* at most MaxActive active cells in the step

\* Nmpi and rank of the modelled process, and its Nthreads workers.
Nmpi == 3
rank == 1
Nthreads == 2
\* sizeof(int), sizeof(TreeCell<ndim>), sizeof(ParticleType<ndim>), in bytes.
SizeofInt == 4
SizeofCell == 16
SizeofPart == 24

Procs == 0 .. (Nmpi - 1)
Threads == 0 .. (Nthreads - 1)

\* The step's inputs: the number of active particles of the active cells
\* (the same for every cell of a step) and, per active cell, the peers whose
\* pruned tree is too close to it (gravity: the walk returns -1; hydro: the
\* boxes overlap).
ExportInputs ==
  UNION { { [nact |-> [c \in 1..n |-> na], close |-> cl] :
              na \in 1..Nleafmax,
              cl \in [1..n -> SUBSET (Procs \ {rank})] } :
          n \in 0..MaxActive }

\* tree->ComputeActiveCellList: the active cells, numbered 1..cactive.
ComputeActiveCellList(cfg) == [cc \in 1..Len(cfg.nact) |-> cc]

\* tree->ComputeActiveParticleList: the ids of the active particles of a
\* cell; the cells' particles are disjoint.
ComputeActiveParticleList(cfg, cell) ==
  IF cell \in 1..Len(cfg.nact)
    THEN LET before == SumSeq(SubSeq(cfg.nact, 1, cell - 1))
         IN [n \in 1..cfg.nact[cell] |-> before + n - 1]
    ELSE <<>>

Nparticles(cfg) == SumSeq(cfg.nact)

\* An entry of gravcelllist that no walk has written.
GarbageEntry == [peer |-> -1, cell |-> -1]

\* Write entry e at (0-based) index n of a list; the slots between the
\* written ones hold whatever the allocation left there.
PutAt(list, n, e) ==
  [k \in 1..Max(Len(list), n + 1) |->
     IF k = n + 1 THEN e
     ELSE IF k <= Len(list) THEN list[k] ELSE GarbageEntry]

\* prunedtree[j]->ComputeDistantGravityInteractionList(cellptr, macfactor,
\* Ngravcellmax, Ngravcell, gravcelllist): -1 if peer j's pruned tree is too
\* close to the cell; otherwise the accepted cells of peer j (one, in the
\* model) are written from index Ngravcell on and the new count is returned.
ComputeDistantGravityInteractionList(cfg, cell, j, Ngravcell, gravcelllist) ==
  IF j \in cfg.close[cell]
    THEN [count |-> -1, list |-> gravcelllist]
    ELSE [count |-> Ngravcell + 1,
          list |-> PutAt(gravcelllist, Ngravcell, [peer |-> j, cell |-> cell])]

\* prunedtree[j]->ComputeHydroTreeCellOverlap(cellptr)
ComputeHydroTreeCellOverlap(cfg, cell, j) == j \in cfg.close[cell]

\* tree->ComputeCellMonopoleForces / ComputeCellQuadrupoleForces /
\* ComputeFastMonopoleForces: the terms added to gpot and agrav, one per
\* entry 0..Ngravcell-1 of gravcelllist.
ComputeCellForces(Ngravcell, gravcelllist) ==
  [n \in 1..Ngravcell |->
     IF n <= Len(gravcelllist) THEN gravcelllist[n] ELSE GarbageEntry]

\* The values an uninitialised private int of a worker may hold.
Uninitialised == {0, 1}

\* A worker before the parallel region.
WorkerIdle ==
  [pc |-> "idle", cc |-> 0, j |-> 0, slot |-> 0, Ngravcell |-> 0,
   gravcelllist |-> <<>>, activelist |-> <<>>, activepart |-> <<>>]

\* The particle fields the pass reads and writes: a, agrav and gpot, each
\* kept as the sequence of the terms it was summed from.
ParticleBefore == [a |-> <<"hydro">>, agrav |-> <<"local">>, gpot |-> <<"local">>]

\* The send buffer before any packing and the record of the last call of
\* GetExportInfo.
EmptyBuffer == [size |-> 0, writes |-> <<>>]
NoPack ==
  [Nproc |-> -1, Nactive |-> 0, cactive |-> 0, exported_particles |-> 0,
   offset |-> 0, old_size |-> 0, ret |-> 0, writes |-> <<>>,
   ndebug |-> FALSE]

InitExportVars ==
  \E cfg \in ExportInputs, stale \in {1} :
    /\ ecfg = cfg
    /\ epc = "start"
    /\ ert = "none"
    /\ Ncellexport = [j \in Procs |-> stale]
    /\ Npartexport = [j \in Procs |-> stale]
    /\ cellexportlist = [j \in Procs |-> [n \in 1..MaxActive |-> 0]]
    /\ eiter = 0
    /\ eth = [t \in Threads |-> WorkerIdle]
    /\ sphdata = [i \in 0 .. (Nparticles(cfg) - 1) |-> ParticleBefore]
    /\ eproc = [c \in 1..Len(cfg.nact) |-> <<>>]
    /\ ewriter = [i \in 0 .. (Nparticles(cfg) - 1) |-> <<>>]
    /\ send_buffer = EmptyBuffer
    /\ ids_sent_particles = [j \in Procs |-> <<>>]
    /\ epack = NoPack
    /\ enproc = 0

IdleExport ==
  /\ ecfg = [nact |-> <<>>, close |-> <<>>]
  /\ epc = "idle"
  /\ ert = "none"
  /\ Ncellexport = [j \in Procs |-> 0]
  /\ Npartexport = [j \in Procs |-> 0]
  /\ cellexportlist = [j \in Procs |-> [n \in 1..MaxActive |-> 0]]
  /\ eiter = 0
  /\ eth = [t \in Threads |-> WorkerIdle]
  /\ sphdata = <<>>
  /\ eproc = <<>>
  /\ ewriter = <<>>
  /\ send_buffer = EmptyBuffer
  /\ ids_sent_particles = [j \in Procs |-> <<>>]
  /\ epack = NoPack
  /\ enproc = 0

\* Reset all export lists:
\*   for (j=0; j<Nmpi; j++) { Ncellexport[j] = 0; Npartexport[j] = 0; }
ResetExportLists(counts) == [j \in Procs |-> 0]

\* Entry of UpdateGravityExportList / UpdateHydroExportList up to the start
\* of the parallel region. Every worker enters the region with its private
\* variables unset: Ngravcell holds whatever was there.
ExportCall(routine) ==
  /\ epc = "start"
  /\ ert' = routine
  /\ epc' = "parallel"
  /\ Ncellexport' = ResetExportLists(Ncellexport)
  /\ Npartexport' = ResetExportLists(Npartexport)
  /\ eiter' = 0
  /\ \E ng \in [Threads -> IF routine = "gravity" THEN Uninitialised ELSE {0}] :
       eth' = [t \in Threads |->
                 [WorkerIdle EXCEPT !.pc = "loop", !.Ngravcell = ng[t]]]
  /\ UNCHANGED <<ecfg, cellexportlist, sphdata, eproc, ewriter, send_buffer,
                 ids_sent_particles, epack, enproc>>

UpdateGravityExportList == ExportCall("gravity")

UpdateHydroExportList == ExportCall("hydro")

\* #pragma omp for schedule(guided): worker t takes the next iteration cc of
\* for (cc=0; cc<cactive; cc++), and (gravity) stages the active particles
\* of the cell in activelistbuf[t], activepartbuf[t] with gpot set to the
\* self term.
StageActive(al) ==
  [n \in 1..Len(al) |-> [sphdata[al[n]] EXCEPT !.gpot = <<"self">>]]

LoopNext(t) ==
  /\ epc = "parallel"
  /\ eth[t].pc = "loop"
  /\ eiter < Len(ecfg.nact)
  /\ LET cell == ComputeActiveCellList(ecfg)[eiter + 1]
         al == ComputeActiveParticleList(ecfg, cell)
     IN /\ eth' = [eth EXCEPT ![t] =
                     [@ EXCEPT !.pc = "peer", !.cc = eiter, !.j = 0,
                        !.activelist = IF ert = "gravity" THEN al ELSE @,
                        !.activepart = IF ert = "gravity"
                                         THEN StageActive(al) ELSE @]]
        /\ eproc' = [eproc EXCEPT ![cell] = Append(@, t)]
  /\ eiter' = eiter + 1
  /\ UNCHANGED <<epc, ert, ecfg, Ncellexport, Npartexport, cellexportlist,
                 sphdata, ewriter, send_buffer, ids_sent_particles, epack,
                 enproc>>

\* The iterations of  for (j=0; j<Nmpi; j++)  of a worker w on its cell that
\* touch its private variables only: up to the first peer that flags the
\* cell, or to the end of the loop.
RECURSIVE PeerScan(_, _)
PeerScan(w, cell) ==
  IF w.j >= Nmpi THEN w
  ELSE IF w.j = rank THEN PeerScan([w EXCEPT !.j = @ + 1], cell)
  ELSE IF ert = "gravity"
    THEN LET res == ComputeDistantGravityInteractionList(
                      ecfg, cell, w.j, w.Ngravcell, w.gravcelllist)
         IN IF res.count = -1 THEN w
            ELSE PeerScan([w EXCEPT !.Ngravcell = res.count,
                                    !.gravcelllist = res.list,
                                    !.j = @ + 1], cell)
  ELSE IF ComputeHydroTreeCellOverlap(ecfg, cell, w.j) THEN w
  ELSE PeerScan([w EXCEPT !.j = @ + 1], cell)

\* Worker t runs its peer loop up to the next peer j that flags its cell and
\* reads Ncellexport[j] for  cellexportlist[j][Ncellexport[j]++] = cellptr.
PeerLoop(t) ==
  /\ epc = "parallel"
  /\ eth[t].pc = "peer"
  /\ LET cell == ComputeActiveCellList(ecfg)[eth[t].cc + 1]
         w == PeerScan(eth[t], cell)
     IN /\ w.j < Nmpi
        /\ eth' = [eth EXCEPT ![t] =
                     [w EXCEPT !.pc = "append", !.slot = Ncellexport[w.j]]]
  /\ UNCHANGED <<epc, ert, ecfg, Ncellexport, Npartexport, cellexportlist,
                 eiter, sphdata, eproc, ewriter, send_buffer,
                 ids_sent_particles, epack, enproc>>

\* The writes of  cellexportlist[j][Ncellexport[j]++] = cellptr  of worker
\* t, with the value of Ncellexport[j] it read before.
ExportAppend(t) ==
  /\ epc = "parallel"
  /\ eth[t].pc = "append"
  /\ LET w == eth[t]
         cell == ComputeActiveCellList(ecfg)[w.cc + 1]
     IN /\ Ncellexport' = [Ncellexport EXCEPT ![w.j] = w.slot + 1]
        /\ cellexportlist' = [cellexportlist EXCEPT ![w.j][w.slot + 1] = cell]
        /\ eth' = [eth EXCEPT ![t] = [@ EXCEPT !.pc = "peer", !.j = w.j + 1]]
  /\ UNCHANGED <<epc, ert, ecfg, Npartexport, eiter, sphdata, eproc, ewriter,
                 send_buffer, ids_sent_particles, epack, enproc>>

\* The particle fields after the force loop and the write-back of a cell:
\*   sphdata[i].a = activepart[j].a; sphdata[i].agrav = activepart[j].agrav;
\*   sphdata[i].a += sphdata[i].agrav; sphdata[i].gpot = activepart[j].gpot
AddForces(p, terms) == [p EXCEPT !.gpot = @ \o terms, !.agrav = @ \o terms]

WriteBack(p) == [a |-> p.a \o p.agrav, agrav |-> p.agrav, gpot |-> p.gpot]

IndexIn(al, i) == CHOOSE n \in 1..Len(al) : al[n] = i

\* Worker t runs its peer loop to the end, no further peer flagging its
\* cell: (gravity) the forces of the Ngravcell cells of gravcelllist on the
\* staged particles and their write-back to sphdata; then the next iteration
\* of the cell loop.
CellForces(t) ==
  /\ epc = "parallel"
  /\ eth[t].pc = "peer"
  /\ LET w == PeerScan(eth[t], ComputeActiveCellList(ecfg)[eth[t].cc + 1])
         terms == ComputeCellForces(w.Ngravcell, w.gravcelllist)
         ap == [n \in 1..Len(w.activepart) |-> AddForces(w.activepart[n], terms)]
         ids == {w.activelist[n] : n \in 1..Len(w.activelist)}
     IN IF ert = "gravity"
          THEN /\ sphdata' = [i \in DOMAIN sphdata |->
                                IF i \in ids
                                  THEN WriteBack(ap[IndexIn(w.activelist, i)])
                                  ELSE sphdata[i]]
               /\ ewriter' = [i \in DOMAIN ewriter |->
                                IF i \in ids THEN Append(ewriter[i], t)
                                ELSE ewriter[i]]
               /\ w.j >= Nmpi
               /\ eth' = [eth EXCEPT ![t] =
                            [w EXCEPT !.pc = "loop", !.activepart = ap]]
          ELSE /\ w.j >= Nmpi
               /\ eth' = [eth EXCEPT ![t] = [w EXCEPT !.pc = "loop"]]
               /\ UNCHANGED <<sphdata, ewriter>>
  /\ UNCHANGED <<epc, ert, ecfg, Ncellexport, Npartexport, cellexportlist,
                 eiter, eproc, send_buffer, ids_sent_particles, epack, enproc>>

\* Worker t finds no iteration left and leaves the loop.
LoopEnd(t) ==
  /\ epc = "parallel"
  /\ eth[t].pc = "loop"
  /\ eiter >= Len(ecfg.nact)
  /\ eth' = [eth EXCEPT ![t] = [@ EXCEPT !.pc = "done"]]
  /\ UNCHANGED <<epc, ert, ecfg, Ncellexport, Npartexport, cellexportlist,
                 eiter, sphdata, eproc, ewriter, send_buffer,
                 ids_sent_particles, epack, enproc>>

\* The peers in the order they are packed for, -1 after the last one.
NextPeer(j) ==
  LET later == {q \in Procs : q > j /\ q # rank}
  IN IF later = {} THEN -1 ELSE SetMin(later)

\* The end of the parallel region: every worker has left the loop.
ExportReturn ==
  /\ epc = "parallel"
  /\ \A t \in Threads : eth[t].pc = "done"
  /\ epc' = "joined"
  /\ enproc' = NextPeer(-1)
  /\ UNCHANGED <<ert, ecfg, Ncellexport, Npartexport, cellexportlist, eiter,
                 eth, sphdata, eproc, ewriter, send_buffer,
                 ids_sent_particles, epack>>

\* What GetExportInfo writes for one exported cell at the current offset:
\* the cell record (with ifirst, ilast set to its range of exported
\* particles) and then the records of the cell's active particles.
PackCell(cfg, cell, offset, exported_particles) ==
  LET al == ComputeActiveParticleList(cfg, cell)
  IN <<[off |-> offset, len |-> SizeofCell, kind |-> "cell", id |-> cell,
        ifirst |-> exported_particles,
        ilast |-> exported_particles + Len(al) - 1]>>
     \o [n \in 1..Len(al) |->
           [off |-> offset + SizeofCell + (n - 1) * SizeofPart,
            len |-> SizeofPart, kind |-> "part", id |-> al[n],
            ifirst |-> 0, ilast |-> 0]]

\* for (int i=0; i<cactive; i++) { ... }  from iteration i on
RECURSIVE PackCells(_, _, _, _)
PackCells(cfg, celllist, i, st) ==
  IF i >= Len(celllist) THEN st
  ELSE LET cell == celllist[i + 1]
           al == ComputeActiveParticleList(cfg, cell)
       IN PackCells(cfg, celllist, i + 1,
            [offset |-> st.offset + SizeofCell + Len(al) * SizeofPart,
             exported_particles |-> st.exported_particles + Len(al),
             writes |-> st.writes
                          \o PackCell(cfg, cell, st.offset, st.exported_particles),
             ids |-> st.ids \o al])

\* A wrong variant of PackHeader, to compare against: the header is written at the start of the buffer.
PackHeaderAtStart(old_size, Nactive, cactive) ==
  << [off |-> 0, len |-> SizeofInt, kind |-> "Nactive",
      id |-> Nactive, ifirst |-> 0, ilast |-> 0],
     [off |-> SizeofInt, len |-> SizeofInt, kind |-> "cactive",
      id |-> cactive, ifirst |-> 0, ilast |-> 0] >>

\* The two ints of the header, at old_size and old_size + sizeof(int).
PackHeader(old_size, Nactive, cactive) ==
  << [off |-> old_size, len |-> SizeofInt, kind |-> "Nactive",
      id |-> Nactive, ifirst |-> 0, ilast |-> 0],
     [off |-> old_size + SizeofInt, len |-> SizeofInt, kind |-> "cactive",
      id |-> cactive, ifirst |-> 0, ilast |-> 0] >>

\* The body of GetExportInfo for one peer: the sizes, the header, the cell
\* loop and the two asserts at its end, for export list celllist, particle
\* count Nactive and a send buffer that holds old_size bytes.
PackMessage(cfg, celllist, Nactive, old_size) ==
  LET cactive == Len(celllist)
      size_header == 2 * SizeofInt
      size_particles == Nactive * SizeofPart
      size_cells == cactive * SizeofCell
      new_size == size_particles + size_cells + size_header + old_size
      st == PackCells(cfg, celllist, 0,
              [offset |-> size_header + old_size, exported_particles |-> 0,
               writes |-> <<>>, ids |-> <<>>])
  IN [Nactive |-> Nactive, cactive |-> cactive, old_size |-> old_size,
      new_size |-> new_size,
      exported_particles |-> st.exported_particles, offset |-> st.offset,
      ids |-> st.ids,
      writes |-> PackHeader(old_size, Nactive, cactive) \o st.writes,
      ret |-> size_particles + size_cells + size_header,
      ok |-> st.exported_particles = Nactive /\ st.offset = new_size]

\* GetExportInfo(Nproc, ...) for the next peer.  A failed assert ends the
\* process in a build that keeps the asserts; a build with NDEBUG goes on.
GetExportInfo ==
  \E ndebug \in BOOLEAN :
  /\ epc = "joined"
  /\ epack.Nproc # -1 => ndebug = epack.ndebug
  /\ LET Nproc == enproc
         pk == PackMessage(ecfg,
                 SubSeq(cellexportlist[Nproc], 1, Ncellexport[Nproc]),
                 Npartexport[Nproc], send_buffer.size)
     IN /\ send_buffer' = [size |-> pk.new_size,
                           writes |-> send_buffer.writes \o pk.writes]
        /\ ids_sent_particles' = [ids_sent_particles EXCEPT ![Nproc] = pk.ids]
        /\ epack' = [Nproc |-> Nproc, Nactive |-> pk.Nactive,
                     cactive |-> pk.cactive,
                     exported_particles |-> pk.exported_particles,
                     offset |-> pk.offset, old_size |-> pk.old_size,
                     ret |-> pk.ret, writes |-> pk.writes,
                     ndebug |-> ndebug]
        /\ epc' = IF ~pk.ok /\ ~ndebug THEN "assert_failed"
                  ELSE IF NextPeer(Nproc) = -1 THEN "packed" ELSE "joined"
        /\ enproc' = IF (pk.ok \/ ndebug) /\ NextPeer(Nproc) # -1
                       THEN NextPeer(Nproc)
                     ELSE enproc
  /\ UNCHANGED <<ert, ecfg, Ncellexport, Npartexport, cellexportlist, eiter,
                 eth, sphdata, eproc, ewriter>>

(***************************************************************************)
(* GetGatherNeighbourList                                                  *)
(***************************************************************************)

\* The queries of the model: a position, a search radius and the capacity
\* of the caller's list.
GatherQueries ==
  { [rp |-> p, rsearch |-> rs, Nneibmax |-> nm] :
      p \in {<<1, 1, 1>>, <<4, 8, 8>>, <<12, 8, 8>>, <<8, 8, 8>>},
      rs \in {2, 7, 8, 12},
      nm \in {1, MaxNsph} }

\* DotProduct(dr,dr,ndim) of dr = a - b
DistSqd(a, b) == SumSeq([k \in Dims |-> (a[k] - b[k]) * (a[k] - b[k])])

\* The opening test of the gather walk: the cell's bounding box, widened by
\* the search radius, holds the position.
GatherBoxOverlap(cell, rp, rsearch) ==
  \A k \in Dims :
    cell.bbmin[k] - rsearch <= rp[k] /\ rp[k] <= cell.bbmax[k] + rsearch

\* The scan of a leaf from particle i on: a particle is listed if it lies
\* within rsearch of rp.
RECURSIVE GatherLeaf(_, _, _, _, _, _)
GatherLeaf(tr, parts, cell, i, q, list) ==
  LET hit == DistSqd(parts[i + 1].r, q.rp) <= q.rsearch * q.rsearch
      l2 == IF hit THEN Append(list, i) ELSE list
  IN IF i = cell.ilast \/ tr.inext[i] = -1 THEN l2
     ELSE GatherLeaf(tr, parts, cell, tr.inext[i], q, l2)

\* The walk from cell c on: a cell that passes the test is opened (its first
\* child is next) or, if a leaf, scanned; any other cell is skipped with
\* its subtree through cnext.
RECURSIVE GatherWalk(_, _, _, _, _)
GatherWalk(tr, parts, c, q, list) ==
  IF c >= tr.Ncell THEN list
  ELSE LET cell == tr.celldata[c]
       IN IF GatherBoxOverlap(cell, q.rp, q.rsearch)
            THEN IF cell.level # tr.ltot
                   THEN GatherWalk(tr, parts, c + 1, q, list)
                 ELSE IF cell.N = 0
                   THEN GatherWalk(tr, parts, cell.cnext, q, list)
                 ELSE GatherWalk(tr, parts, cell.cnext, q,
                                 GatherLeaf(tr, parts, cell, cell.ifirst, q, list))
            ELSE GatherWalk(tr, parts, cell.cnext, q, list)

\* tree->ComputeGatherNeighbourList(sphdata, rp, rsearch, Nneibmax, neiblist):
\* the list of the walk; more neighbours than the list can hold is fatal.
ComputeGatherNeighbourList(tr, parts, q) ==
  LET list == GatherWalk(tr, parts, 0, q, <<>>)
  IN IF Len(list) > q.Nneibmax
       THEN [fatal |-> TRUE, Nneib |-> -1, neiblist |-> <<>>]
       ELSE [fatal |-> FALSE, Nneib |-> Len(list), neiblist |-> list]

\* A wrong variant of GetGatherNeighbourList, to compare against: no walk is made.
GetGatherNeighbourListNone(tr, parts, q) ==
  [fatal |-> FALSE, Nneib |-> 0, neiblist |-> <<>>]

\* GetGatherNeighbourList: Nneib = tree->ComputeGatherNeighbourList(...);
\* return Nneib;
GetGatherNeighbourList(tr, parts, q) == ComputeGatherNeighbourList(tr, parts, q)

NoQuery == [rp |-> <<0, 0, 0>>, rsearch |-> 0, Nneibmax |-> 0]
NoNeighbours == [fatal |-> FALSE, Nneib |-> 0, neiblist |-> <<>>]

\* The main tree and the particle array at a neighbour query.
InitNeibVars ==
  \E inp \in TreeInputs :
    /\ gpart = WithOrigin(inp.parts)
    /\ gtree = StockedTree(inp.parts, inp.sizes)
    /\ gsph = StaleCounters(Len(inp.parts), 0)
    /\ gpc = At("idle", 0)
    /\ gcfg = [tghost |-> 0, bnd |-> <<OpenOpen, OpenOpen, OpenOpen>>]
    /\ gc = 0
    /\ gi = 0
    /\ glog = <<>>
    /\ gafter = [k \in 1..3 |-> -1]
    /\ npc = "ready"
    /\ nq = NoQuery
    /\ nres = NoNeighbours

IdleNeib ==
  /\ npc = "idle"
  /\ nq = NoQuery
  /\ nres = NoNeighbours

\* A call of GetGatherNeighbourList on the tree.
GatherCall ==
  /\ npc = "ready"
  /\ \E q \in GatherQueries :
       /\ nq' = q
       /\ nres' = GetGatherNeighbourList(gtree, gpart, q)
       /\ npc' = IF nres'.fatal THEN "fatal" ELSE "returned"
  /\ UNCHANGED ghostVars

\* The caller takes the list; the tree is ready for the next query.
GatherDone ==
  /\ npc \in {"returned"}
  /\ npc' = "ready"
  /\ nq' = NoQuery
  /\ nres' = NoNeighbours
  /\ UNCHANGED ghostVars

(***************************************************************************)
(* The exchange of a step between the processes: GetExportInfo,            *)
(* UnpackExported, GetBackExportInfo, UnpackReturnedExportInfo             *)
(***************************************************************************)

\* The pairs <<s, d>> of the model in which process s has cells to export
\* to process d: the process of the model exports to both its peers, and
\* the last process to the first, so that one process imports from two.
ExportPairs == {<<rank, d>> : d \in Procs \ {rank}} \cup {<<Nmpi - 1, 0>>}

\* What the exchange starts from.  Every process has the same MaxActive
\* active cells; Ncellexport[s][d] and cellexportlist[s][d] are as the
\* export routines leave them, and so is Npartexport[s][d], which they set
\* to 0 and never add to.  ndebug tells whether the build drops the
\* asserts; spare is the room of the particle and cell arrays beyond the
\* local particles and cells.
ExchangeInputs ==
  { [nact |-> [c \in 1..MaxActive |-> na],
     Ncellexport |-> [s \in Procs |-> [d \in Procs |->
                        IF <<s, d>> \in ExportPairs THEN n[<<s, d>>] ELSE 0]],
     Npartexport |-> [s \in Procs |-> [d \in Procs |-> 0]],
     Nghost |-> 1, ndebug |-> nd, spare |-> sp]
    : na \in 1..Nleafmax, n \in [ExportPairs -> 0..MaxActive],
      nd \in BOOLEAN,
      sp \in {[part |-> 0, cell |-> 1], [part |-> SpareCap, cell |-> SpareCap]} }

\* The fields of a particle that UnpackReturnedExportInfo sums.
SumFields == {"a", "agrav", "gpot", "gpe", "dudt", "div_v"}

\* Particle i of process p before the exchange: its origin id, its
\* position (for the fields that are no results) and the results of the
\* local force calculation.
LocalParticle(cfg, p, i) ==
  [iorig |-> p * (Nparticles(cfg) + cfg.Nghost) + i, pos |-> i,
   res |-> [f \in SumFields |-> 1], levelneib |-> 2]

\* Cell c of the tree of process p.
LocalCell(cfg, p, c) ==
  LET al == ComputeActiveParticleList(cfg, c)
  IN [id |-> c, src |-> p, Nactive |-> Len(al), ifirst |-> al[1],
      ilast |-> al[Len(al)]]

\* The values an int read from bytes that nobody wrote may have.
Unwritten == {0, 1}

\* What a read of bytes that nobody wrote can give.
GarbageParticle(g) ==
  [iorig |-> -1, pos |-> g, res |-> [f \in SumFields |-> g], levelneib |-> g]
GarbageCell(g) ==
  [id |-> -1, src |-> -1, Nactive |-> g, ifirst |-> g, ilast |-> g]

\* A wrong variant of PutRec, to compare against: it writes at index 0.
PutRecFirst(list, n, e, fill) ==
  [k \in 1..Max(Len(list), 1) |-> IF k = 1 THEN e ELSE list[k]]

\* Write record e at (0-based) index n of an array; a slot between the
\* written ones holds fill.
PutRec(list, n, e, fill) ==
  [k \in 1..Max(Len(list), n + 1) |->
     IF k = n + 1 THEN e
     ELSE IF k <= Len(list) THEN list[k] ELSE fill]

\* The sum of f[0], ..., f[n-1].
RECURSIVE SumBefore(_, _)
SumBefore(f, n) == IF n <= 0 THEN 0 ELSE f[n - 1] + SumBefore(f, n - 1)

\* The bytes of a call of GetExportInfo that the transport sends: the ret
\* bytes from old_size on.  What the call wrote at or beyond the end of the
\* buffer is not among them.
SentMessage(pk) ==
  [bytes |-> pk.ret,
   recs |-> LET inside == SelectSeq(pk.writes,
                            LAMBDA w : w.off + w.len <= pk.new_size)
            IN [k \in 1..Len(inside) |->
                  [inside[k] EXCEPT !.off = @ - pk.old_size]]]

NoMessage == [bytes |-> 0, recs |-> <<>>]

\* The calls GetExportInfo(Nproc, ...) of process p for its peers in turn,
\* from peer Nproc on, into one send buffer.  st holds the size of the
\* buffer, the messages and id lists so far and whether an assert failed.
RECURSIVE PackPeers(_, _, _, _)
PackPeers(cfg, p, Nproc, st) ==
  IF Nproc >= Nmpi \/ (st.failed /\ ~cfg.ndebug) THEN st
  ELSE IF Nproc = p THEN PackPeers(cfg, p, Nproc + 1, st)
  ELSE LET n == cfg.Ncellexport[p][Nproc]
           pk == PackMessage(cfg, [k \in 1..n |-> k],
                             cfg.Npartexport[p][Nproc], st.size)
       IN PackPeers(cfg, p, Nproc + 1,
            [size |-> pk.new_size,
             msg |-> [st.msg EXCEPT ![Nproc] = SentMessage(pk)],
             ids |-> [st.ids EXCEPT ![Nproc] = pk.ids],
             failed |-> st.failed \/ ~pk.ok])

\* received_array and Nbytes_exported_from_proc of process d: the messages
\* sent to it, in the order of their senders.
ReceivedBytes(send, d) ==
  [s \in Procs |-> IF s = d THEN 0 ELSE send[s][d].bytes]

ReceivedArray(send, d) ==
  LET nb == ReceivedBytes(send, d)
  IN [size |-> SumBefore(nb, Nmpi),
      recs |-> UNION { { [off |-> send[s][d].recs[k].off + SumBefore(nb, s),
                          kind |-> send[s][d].recs[k].kind,
                          id |-> send[s][d].recs[k].id,
                          ifirst |-> send[s][d].recs[k].ifirst,
                          ilast |-> send[s][d].recs[k].ilast,
                          src |-> s]
                         : k \in 1..Len(send[s][d].recs) }
                       : s \in Procs \ {d} }]

\* copy(&x, &received_array[offset]) for an int, a cell and a particle.
\* Bytes that hold no such record, or lie beyond the array, give garbage.
ReadInt(arr, offset, g) ==
  LET at == {w \in arr.recs : w.off = offset
                               /\ w.kind \in {"Nactive", "cactive"}}
  IN IF at = {} THEN g ELSE (CHOOSE w \in at : TRUE).id

ReadCell(cfg, arr, offset, g) ==
  LET at == {w \in arr.recs : w.off = offset /\ w.kind = "cell"}
  IN IF at = {} THEN GarbageCell(g)
     ELSE LET w == CHOOSE w \in at : TRUE
          IN [id |-> w.id, src |-> w.src, Nactive |-> cfg.nact[w.id],
              ifirst |-> w.ifirst, ilast |-> w.ilast]

ReadParticle(cfg, arr, offset, g) ==
  LET at == {w \in arr.recs : w.off = offset /\ w.kind = "part"}
  IN IF at = {} THEN GarbageParticle(g)
     ELSE LET w == CHOOSE w \in at : TRUE
          IN LocalParticle(cfg, w.src, w.id)

\* for (iparticle=0; iparticle<dest_cell.Nactive; iparticle++) { ... } of
\* UnpackExported, from iteration iparticle on.
RECURSIVE UnpackParticles(_, _, _, _, _, _)
UnpackParticles(cfg, arr, g, Nactive, iparticle, u) ==
  IF iparticle >= Nactive THEN u
  ELSE UnpackParticles(cfg, arr, g, Nactive, iparticle + 1,
         [u EXCEPT
            !.sphdata = PutRec(@, u.particle_index,
                               ReadParticle(cfg, arr, u.offset, g),
                               GarbageParticle(g)),
            !.inext = (u.particle_index :> u.particle_index + 1) @@ @,
            !.wpart = @ \cup {[Nproc |-> u.header[Len(u.header)].Nproc,
                                i |-> u.particle_index]},
            !.particle_index = @ + 1,
            !.offset = @ + SizeofPart])

\* for (icell=0; icell<N_received_cells; icell++) { ... }, from icell on.
RECURSIVE UnpackCells(_, _, _, _, _, _)
UnpackCells(cfg, arr, g, N_received_cells, icell, u) ==
  IF icell >= N_received_cells THEN u
  ELSE LET read == ReadCell(cfg, arr, u.offset, g)
           dest_cell == [read EXCEPT !.ifirst = @ + u.Ntot,
                                     !.ilast = @ + u.Ntot]
       IN UnpackCells(cfg, arr, g, N_received_cells, icell + 1,
            UnpackParticles(cfg, arr, g, dest_cell.Nactive, 0,
              [u EXCEPT
                 !.celldata = PutRec(@, icell + u.Ncelltot, dest_cell,
                                     GarbageCell(g)),
                 !.wcell = @ \cup {[Nproc |-> u.header[Len(u.header)].Nproc,
                                     i |-> icell + u.Ncelltot]},
                 !.offset = @ + SizeofCell]))

\* for (Nproc = 0; Nproc<Nbytes_exported_from_proc.size(); Nproc++) { ... },
\* from Nproc on; it ends where the exception handler is raised.
RECURSIVE UnpackPeers(_, _, _, _, _, _)
UnpackPeers(cfg, arr, nbytes, g, Nproc, u) ==
  IF Nproc >= Nmpi \/ u.raised # "no" THEN u
  ELSE IF nbytes[Nproc] = 0
    THEN UnpackPeers(cfg, arr, nbytes, g, Nproc + 1,
           [u EXCEPT !.N_imported_part_per_proc[Nproc] = 0])
  ELSE LET N_received_particles == ReadInt(arr, u.offset, g)
           N_received_cells == ReadInt(arr, u.offset + SizeofInt, g)
           u0 == [u EXCEPT !.N_imported_part_per_proc[Nproc] =
                              N_received_particles,
                           !.header = Append(@, [Nproc |-> Nproc,
                                        particles |-> N_received_particles,
                                        cells |-> N_received_cells,
                                        Ntot |-> u.Ntot,
                                        Ncelltot |-> u.Ncelltot])]
       IN IF u.Ntot + N_received_particles > u.Nsphmax
            THEN [u0 EXCEPT !.raised = "particles"]
          ELSE IF u.Ncelltot + N_received_cells > u.Ncellmax
            THEN [u0 EXCEPT !.raised = "cells"]
          ELSE LET u1 == UnpackCells(cfg, arr, g, N_received_cells, 0,
                           [u0 EXCEPT !.particle_index = u.Ntot,
                                      !.offset = @ + 2 * SizeofInt])
               IN UnpackPeers(cfg, arr, nbytes, g, Nproc + 1,
                    [u1 EXCEPT
                       !.Ntot = @ + N_received_particles,
                       !.NImportedParticles = @ + N_received_particles,
                       !.Nimportedcell = @ + N_received_cells,
                       !.Ncelltot = @ + N_received_cells,
                       !.treeNtot = u1.Ntot + N_received_particles])

\* The particle at (0-based) index i of an array, garbage if nothing was
\* written there.
PartAt(data, i, g) ==
  IF i + 1 \in 1..Len(data) THEN data[i + 1] ELSE GarbageParticle(g)

\* Sph, the tree, the exchange buffers of SphTree and of its caller, and
\* the record of the calls of a process before the exchange.
InitialSph(cfg, p) ==
  [Nsph |-> Nparticles(cfg), Nghost |-> cfg.Nghost,
   Ntot |-> Nparticles(cfg) + cfg.Nghost,
   Nsphmax |-> Nparticles(cfg) + cfg.Nghost + cfg.spare.part,
   NImportedParticles |-> 0,
   sphdata |-> [k \in 1..(Nparticles(cfg) + cfg.Nghost) |->
                  IF k <= Nparticles(cfg) THEN LocalParticle(cfg, p, k - 1)
                  ELSE [LocalParticle(cfg, p, 0) EXCEPT !.pos = -1]]]

InitialTree(cfg, p) ==
  [Ncell |-> MaxActive, Ncelltot |-> MaxActive,
   Ncellmax |-> MaxActive + cfg.spare.cell, Nimportedcell |-> 0,
   Ntot |-> Nparticles(cfg) + cfg.Nghost,
   celldata |-> [c \in 1..MaxActive |-> LocalCell(cfg, p, c)],
   inext |-> <<>>]

InitialMpi ==
  [ids_sent_particles |-> [d \in Procs |-> <<>>],
   N_imported_part_per_proc |-> [s \in Procs |-> 0],
   send |-> [d \in Procs |-> NoMessage],
   back |-> [s \in Procs |-> <<>>],
   Nbytes_exported_from_proc |-> [s \in Procs |-> 0],
   Nbytes_to_each_proc |-> [d \in Procs |-> 0]]

NoCalls ==
  [Ntot |-> 0, Ncell |-> 0, wpart |-> {}, wcell |-> {}, header |-> <<>>,
   offset |-> 0, nbytes |-> 0, raised |-> "no", applied |-> <<>>,
   garbage |-> [q \in Procs |-> 0]]

InitExchangeVars ==
  \E cfg \in ExchangeInputs :
    /\ xcfg = cfg
    /\ xpc = [p \in Procs |-> "pack"]
    /\ xsph = [p \in Procs |-> InitialSph(cfg, p)]
    /\ xtree = [p \in Procs |-> InitialTree(cfg, p)]
    /\ xmpi = [p \in Procs |-> InitialMpi]
    /\ xlog = [p \in Procs |-> NoCalls]

IdleExchange ==
  /\ xcfg = [nact |-> <<>>]
  /\ xpc = [p \in Procs |-> "idle"]
  /\ xsph = <<>>
  /\ xtree = <<>>
  /\ xmpi = <<>>
  /\ xlog = <<>>

\* No process has stopped the job.
Running == \A q \in Procs : xpc[q] \notin {"raised", "assert_failed"}

\* Process p packs its export messages: GetExportInfo for each peer.
ExchangePack(p) ==
  /\ Running
  /\ xpc[p] = "pack"
  /\ LET st == PackPeers(xcfg, p, 0,
                 [size |-> 0, msg |-> [d \in Procs |-> NoMessage],
                  ids |-> xmpi[p].ids_sent_particles,
                  failed |-> xtree[p].Nimportedcell # 0])
     IN /\ xmpi' = [xmpi EXCEPT ![p].send = st.msg,
                                ![p].ids_sent_particles = st.ids]
        /\ xpc' = [xpc EXCEPT ![p] = IF st.failed /\ ~xcfg.ndebug
                                       THEN "assert_failed" ELSE "unpack"]
  /\ UNCHANGED <<xcfg, xsph, xtree, xlog>>

\* UnpackExported on process p, once the messages of its peers are there.
UnpackExported(p) ==
  /\ Running
  /\ xpc[p] = "unpack"
  /\ \A s \in Procs : xpc[s] # "pack"
  /\ \E g \in Unwritten :
       LET send == [s \in Procs |-> xmpi[s].send]
           nbytes == ReceivedBytes(send, p)
           u == UnpackPeers(xcfg, ReceivedArray(send, p), nbytes, g, 0,
                  [offset |-> 0, particle_index |-> 0,
                   Ntot |-> xsph[p].Ntot, Nsphmax |-> xsph[p].Nsphmax,
                   NImportedParticles |-> xsph[p].NImportedParticles,
                   sphdata |-> xsph[p].sphdata,
                   Nimportedcell |-> 0, Ncelltot |-> xtree[p].Ncell,
                   Ncellmax |-> xtree[p].Ncellmax,
                   treeNtot |-> xtree[p].Ntot,
                   celldata |-> xtree[p].celldata, inext |-> xtree[p].inext,
                   N_imported_part_per_proc |-> [s \in Procs |-> 0],
                   wpart |-> {}, wcell |-> {}, header |-> <<>>,
                   raised |-> "no"])
           failed == \/ xsph[p].NImportedParticles # 0
                     \/ u.offset # SumBefore(nbytes, Nmpi)
       IN /\ xsph' = [xsph EXCEPT ![p].Ntot = u.Ntot,
                        ![p].NImportedParticles = u.NImportedParticles,
                        ![p].sphdata = u.sphdata]
          /\ xtree' = [xtree EXCEPT ![p].Nimportedcell = u.Nimportedcell,
                         ![p].Ncelltot = u.Ncelltot, ![p].Ntot = u.treeNtot,
                         ![p].celldata = u.celldata, ![p].inext = u.inext]
          /\ xmpi' = [xmpi EXCEPT ![p].N_imported_part_per_proc =
                                     u.N_imported_part_per_proc]
          /\ xlog' = [xlog EXCEPT ![p].Ntot = xsph[p].Ntot,
                        ![p].Ncell = xtree[p].Ncell,
                        ![p].wpart = u.wpart, ![p].wcell = u.wcell,
                        ![p].header = u.header, ![p].offset = u.offset,
                        ![p].nbytes = SumBefore(nbytes, Nmpi),
                        ![p].raised = u.raised]
          /\ xpc' = [xpc EXCEPT ![p] =
                       IF u.raised # "no" THEN "raised"
                       ELSE IF failed /\ ~xcfg.ndebug THEN "assert_failed"
                       ELSE "evaluate"]
  /\ UNCHANGED xcfg

\* What the force routines of process p add for an imported particle.
Contribution(p) == p + 1

\* The force calculation of process p on the particles it imported: the
\* result fields of sphdata[Ntot - NImportedParticles .. Ntot - 1].
EvaluateImported(p) ==
  /\ Running
  /\ xpc[p] = "evaluate"
  /\ xsph' = [xsph EXCEPT ![p].sphdata =
       [k \in 1..Len(@) |->
          IF k - 1 \in (xsph[p].Ntot - xsph[p].NImportedParticles)
                        .. (xsph[p].Ntot - 1)
            THEN [@[k] EXCEPT !.res = [f \in SumFields |-> Contribution(p)],
                              !.levelneib = Contribution(p)]
            ELSE @[k]]]
  /\ xpc' = [xpc EXCEPT ![p] = "back"]
  /\ UNCHANGED <<xcfg, xtree, xmpi, xlog>>

\* for (Nproc=0; Nproc < N_imported_part_per_proc.size(); Nproc++) { ... }
\* of GetBackExportInfo, from Nproc on.
RECURSIVE BackPeers(_, _, _, _)
BackPeers(sph, mpi, g, b) ==
  IF b.Nproc >= Nmpi THEN b
  ELSE LET Nproc == b.Nproc
           N_received_particles == mpi.N_imported_part_per_proc[Nproc]
           start_index == sph.Nsph + sph.Nghost + b.removed_particles
       IN BackPeers(sph, mpi, g,
            [Nproc |-> Nproc + 1,
             removed_particles |-> b.removed_particles + N_received_particles,
             Ntot |-> b.Ntot - N_received_particles,
             NImportedParticles |->
               b.NImportedParticles - N_received_particles,
             send_buffer |-> b.send_buffer \o
               [j \in 1..N_received_particles |->
                  [off |-> (b.removed_particles + j - 1) * SizeofPart,
                   len |-> SizeofPart,
                   data |-> PartAt(sph.sphdata, start_index + j - 1, g)]],
             Nbytes_exported_from_proc |->
               [b.Nbytes_exported_from_proc EXCEPT ![Nproc] =
                  N_received_particles * SizeofPart],
             Nbytes_to_each_proc |->
               [b.Nbytes_to_each_proc EXCEPT ![Nproc] =
                  Len(mpi.ids_sent_particles[Nproc]) * SizeofPart]])

\* GetBackExportInfo on process p.
GetBackExportInfo(p) ==
  /\ Running
  /\ xpc[p] = "back"
  /\ \E g \in Unwritten :
       LET b == BackPeers(xsph[p], xmpi[p], g,
                  [Nproc |-> 0, removed_particles |-> 0,
                   Ntot |-> xsph[p].Ntot,
                   NImportedParticles |-> xsph[p].NImportedParticles,
                   send_buffer |-> <<>>,
                   Nbytes_exported_from_proc |->
                     xmpi[p].Nbytes_exported_from_proc,
                   Nbytes_to_each_proc |-> xmpi[p].Nbytes_to_each_proc])
           treeNtot == xtree[p].Ntot - xsph[p].NImportedParticles
           failed == \/ b.NImportedParticles # 0
                     \/ b.Ntot # xsph[p].Nsph + xsph[p].Nghost
                     \/ xsph[p].NImportedParticles * SizeofPart
                          # b.removed_particles * SizeofPart
       IN /\ xsph' = [xsph EXCEPT ![p].Ntot = b.Ntot,
                        ![p].NImportedParticles = b.NImportedParticles]
          /\ xtree' = [xtree EXCEPT ![p].Ncelltot = xtree[p].Ncell,
                         ![p].Nimportedcell = 0, ![p].Ntot = treeNtot]
          /\ xmpi' = [xmpi EXCEPT
               ![p].back = [s \in Procs |->
                  SelectSeq(b.send_buffer, LAMBDA w :
                    /\ w.off >= SumBefore(b.Nbytes_exported_from_proc, s)
                    /\ w.off < SumBefore(b.Nbytes_exported_from_proc, s + 1))],
               ![p].Nbytes_exported_from_proc = b.Nbytes_exported_from_proc,
               ![p].Nbytes_to_each_proc = b.Nbytes_to_each_proc]
          /\ xpc' = [xpc EXCEPT ![p] = IF failed /\ ~xcfg.ndebug
                                         THEN "assert_failed"
                                       ELSE "reconcile"]
  /\ UNCHANGED <<xcfg, xlog>>

\* received_information and recv_displs of process p: the block each peer
\* returned for p, put where p expects it, cut to the size p expects.
ReturnDispls(mpi) ==
  [q \in Procs |-> SumBefore(mpi.Nbytes_to_each_proc, q)]

ReturnedInformation(allmpi, p) ==
  UNION { { [off |-> ReturnDispls(allmpi[p])[q] + (k - 1) * SizeofPart,
             data |-> allmpi[q].back[p][k].data, src |-> q]
            : k \in {n \in 1..Len(allmpi[q].back[p]) :
                       n * SizeofPart <= allmpi[p].Nbytes_to_each_proc[q]} }
          : q \in Procs \ {p} }

\* reinterpret_cast<ParticleType*>(&received_information[offset])
ReadReturned(info, offset, g) ==
  LET at == {w \in info : w.off = offset}
  IN IF at = {} THEN GarbageParticle(g) ELSE (CHOOSE w \in at : TRUE).data

\* A wrong variant of Accumulate, to compare against: the received record replaces the particle.
AccumulateWholeRecord(particle, received_particle) == received_particle

\* The sums and the maximum of UnpackReturnedExportInfo for one record.
Accumulate(particle, received_particle) ==
  [particle EXCEPT
     !.res = [f \in SumFields |-> @[f] + received_particle.res[f]],
     !.levelneib = Max(@, received_particle.levelneib)]

\* for (i=0; i<ids_active_particles.size(); i++) { ... } of
\* UnpackReturnedExportInfo for peer Nproc, from i on.  It ends where the
\* assert on the origin id fails, if the build has the asserts.
RECURSIVE ReturnedRecords(_, _, _, _, _, _, _, _)
ReturnedRecords(ndebug, info, displs, ids, g, Nproc, i, v) ==
  IF i >= Len(ids) \/ v.failed THEN v
  ELSE LET j == ids[i + 1]
           received_particle ==
             ReadReturned(info, i * SizeofPart + displs[Nproc], g[Nproc])
           same == v.sphdata[j + 1].iorig = received_particle.iorig
           entry == [Nproc |-> Nproc, i |-> i, j |-> j,
                     received |-> received_particle, same |-> same]
       IN IF ~same /\ ~ndebug
            THEN [v EXCEPT !.failed = TRUE]
          ELSE ReturnedRecords(ndebug, info, displs, ids, g, Nproc, i + 1,
                 [v EXCEPT
                    !.sphdata[j + 1] = Accumulate(@, received_particle),
                    !.applied = Append(@, entry)])

\* for (Nproc=0; Nproc<recv_displs.size(); Nproc++) { ... }, the peers
\* taken in the given order; the code takes them in increasing order.
RECURSIVE ReturnedPeers(_, _, _, _, _, _, _, _)
ReturnedPeers(ndebug, info, displs, mpi, g, p, order, v) ==
  IF order = <<>> \/ v.failed THEN v
  ELSE LET Nproc == Head(order)
       IN ReturnedPeers(ndebug, info, displs, mpi, g, p, Tail(order),
            IF p = Nproc THEN v
            ELSE ReturnedRecords(ndebug, info, displs,
                   mpi.ids_sent_particles[Nproc], g, Nproc, 0, v))

PeerOrder == [k \in 1..Nmpi |-> k - 1]

\* UnpackReturnedExportInfo on process p, once its peers have returned
\* their blocks.  g[q] is what a read of bytes that peer q did not send
\* gives (0 where nothing is read for q).
UnpackReturnedExportInfo(p) ==
  /\ Running
  /\ xpc[p] = "reconcile"
  /\ \A q \in Procs : xpc[q] \in {"reconcile", "done"}
  /\ \E g \in {h \in [Procs -> Unwritten] :
                 \A q \in Procs :
                   q = p \/ xmpi[p].ids_sent_particles[q] = <<>> => h[q] = 0} :
       LET v == ReturnedPeers(xcfg.ndebug, ReturnedInformation(xmpi, p),
                  ReturnDispls(xmpi[p]), xmpi[p], g, p, PeerOrder,
                  [sphdata |-> xsph[p].sphdata, applied |-> <<>>,
                   failed |-> FALSE])
       IN /\ xsph' = [xsph EXCEPT ![p].sphdata = v.sphdata]
          /\ xlog' = [xlog EXCEPT ![p].applied = v.applied,
                                  ![p].garbage = g]
          /\ xpc' = [xpc EXCEPT ![p] = IF v.failed THEN "assert_failed"
                                       ELSE "done"]
  /\ UNCHANGED <<xcfg, xtree, xmpi>>

(***************************************************************************)
(* BuildPrunedTree                                                         *)
(***************************************************************************)

\* Bound of the pruned-tree model.
MaxLevel == 2         \* tree->ltot and pruning_level in 0 .. MaxLevel

\* The levels of the cells of a binary tree with levels l .. depth, stored
\* in depth-first order.
RECURSIVE Levels(_, _)
Levels(depth, l) ==
  IF l >= depth THEN <<l>>
  ELSE <<l>> \o Levels(depth, l + 1) \o Levels(depth, l + 1)

\* CreateTreeStructure: the links of the cells of a tree with levels
\* 0 .. depth, by (0-based) cell index.
TreeStructure(depth) ==
  LET lev == Levels(depth, 0)
  IN [k \in 1..Len(lev) |->
        [c1 |-> IF lev[k] = depth THEN -1 ELSE k,
         c2 |-> IF lev[k] = depth THEN -1
                ELSE k - 1 + Pow2(depth - lev[k]),
         cnext |-> k - 2 + Pow2(depth - lev[k] + 1)]]

\* A cell: its links and its data, which are its level and what the
\* stocking of the named step of the named process put into it.
TreeCellOf(links, level, id, owner, step) ==
  [c1 |-> links.c1, c2 |-> links.c2, cnext |-> links.cnext,
   level |-> level, id |-> id, owner |-> owner, step |-> step]

\* The local tree with levels 0 .. depth as stocked in the given step.
LocalTree(depth, step) ==
  [ltot |-> depth, Ncell |-> Pow2(depth + 1) - 1,
   celldata |-> [k \in 1..(Pow2(depth + 1) - 1) |->
                   TreeCellOf(TreeStructure(depth)[k], Levels(depth, 0)[k],
                              k - 1, rank, step)]]

\* The cell types the class is instantiated with. A cell of a KD-tree has
\* two children, a cell of an oct-tree one per orthant, 2^ndim.
TreeCells == {"KDTreeCell", "OctTreeCell"}

Nchild(TreeCell) == IF TreeCell = "OctTreeCell" THEN Pow2(ndim) ELSE 2

\* The number of cells of a subtree of n-fold cells with h levels below
\* its root.
RECURSIVE SubtreeCells(_, _)
SubtreeCells(n, h) == IF h = 0 THEN 1 ELSE 1 + n * SubtreeCells(n, h - 1)

RECURSIVE Repeat(_, _)
Repeat(q, n) == IF n = 0 THEN <<>> ELSE q \o Repeat(q, n - 1)

\* The levels of the cells of a tree of n-fold cells with levels l .. depth,
\* stored in depth-first order.
RECURSIVE LevelsOf(_, _, _)
LevelsOf(n, depth, l) ==
  IF l >= depth THEN <<l>>
  ELSE <<l>> \o Repeat(LevelsOf(n, depth, l + 1), n)

\* The local tree of the given cell type with levels 0 .. depth as stocked
\* in the given step; c1 and c2 are its first two children.
LocalTreeOf(TreeCell, depth, step) ==
  LET n == Nchild(TreeCell)
      lev == LevelsOf(n, depth, 0)
  IN [ltot |-> depth, Ncell |-> Len(lev),
      celldata |-> [k \in 1..Len(lev) |->
         TreeCellOf(
           [c1 |-> IF lev[k] = depth THEN -1 ELSE k,
            c2 |-> IF lev[k] = depth THEN -1
                   ELSE k + SubtreeCells(n, depth - lev[k] - 1),
            cnext |-> k - 1 + SubtreeCells(n, depth - lev[k])],
           lev[k], k - 1, rank, step)]]

\* prunedtree[i] before the first call: allocated and linked for the
\* pruning level of the run; the slots of a peer hold the cells it sent.
PrunedTreeBefore(L, i) ==
  [ltot |-> L, ltot_old |-> L, gmax |-> Pow2(L),
   Ncellmax |-> Pow2(L + 1) - 1, Ncell |-> Pow2(L + 1) - 1,
   celldata |-> [k \in 1..(Pow2(L + 1) - 1) |->
                   TreeCellOf(TreeStructure(L)[k], Levels(L, 0)[k],
                              k - 1, i, 0)]]

InitPrunedVars ==
  \E L \in 0..MaxLevel :
    /\ ppc = "tree"
    /\ pn = 1
    /\ pruning_level = L
    /\ ptree = LocalTree(0, 0)
    /\ prunedtree = [i \in Procs |-> PrunedTreeBefore(L, i)]
    /\ Nprunedcellmax = 0

IdlePruned ==
  /\ ppc = "idle"
  /\ pn = 0
  /\ pruning_level = 0
  /\ ptree = <<>>
  /\ prunedtree = <<>>
  /\ Nprunedcellmax = 0

\* The tree build of the step: the local tree gets the depth its particles
\* need and is stocked.
LocalTreeBuilt ==
  /\ ppc = "tree"
  /\ \E depth \in 0..MaxLevel, TreeCell \in TreeCells :
       ptree' = LocalTreeOf(TreeCell, depth, pn)
  /\ ppc' = "prune"
  /\ UNCHANGED <<pn, pruning_level, prunedtree, Nprunedcellmax>>

\* for (c=0; c<tree->Ncell; c++) { ... } of BuildPrunedTree, from cell c
\* on: st holds cnew and the cells of prunedtree[rank].  A write beyond the
\* allocated cells extends the array of the model.
\* The cells c .. Ncell-1 that pass the test of the loop are written, in
\* order, to the slots cnew, cnew+1, ...; each keeps the links of its slot.
CopyCells(tr, L, c, st) ==
  LET kept == SelectSeq(SubSeq(tr.celldata, c + 1, tr.Ncell),
                        LAMBDA cell : ~(cell.level > L))
      cnew == st.cnew + Len(kept)
      Slot(k) == IF k \in 1..Len(st.celldata) THEN st.celldata[k]
                 ELSE [c1 |-> -1, c2 |-> -1, cnext |-> -1]
  IN [cnew |-> cnew,
      celldata |-> [k \in 1..Max(Len(st.celldata), cnew) |->
                      IF k > st.cnew /\ k <= cnew
                        THEN [kept[k - st.cnew] EXCEPT !.c1 = Slot(k).c1,
                                                       !.c2 = Slot(k).c2,
                                                       !.cnext = Slot(k).cnext]
                        ELSE st.celldata[k]]]

\* BuildPrunedTree(pruning_level, rank)
BuildPrunedTree ==
  /\ ppc = "prune"
  /\ LET sized == [i \in Procs |->
                     [prunedtree[i] EXCEPT
                        !.ltot_old = prunedtree[i].ltot,
                        !.ltot = pruning_level,
                        !.gmax = Pow2(pruning_level),
                        !.Ncellmax = 2 * Pow2(pruning_level) - 1,
                        !.Ncell = 2 * Pow2(pruning_level) - 1]]
         st == CopyCells(ptree, pruning_level, 0,
                 [cnew |-> 0, celldata |-> sized[rank].celldata])
     IN /\ prunedtree' = [sized EXCEPT ![rank].celldata = st.celldata]
        /\ Nprunedcellmax' = SumBefore([i \in Procs |-> sized[i].Ncellmax],
                                       Nmpi)
  /\ ppc' = "pruned"
  /\ UNCHANGED <<pn, pruning_level, ptree>>

\* The next step of the run.
PrunedNextStep ==
  /\ ppc = "pruned"
  /\ pn < MaxStep
  /\ pn' = pn + 1
  /\ ppc' = "tree"
  /\ UNCHANGED <<pruning_level, ptree, prunedtree, Nprunedcellmax>>

(***************************************************************************)
(* CommunicatePrunedTrees                                                  *)
(***************************************************************************)

\* The pairs of processes, the lower rank first.
Pairs == {m \in Procs \X Procs : m[1] < m[2]}

\* The league calendars: a sequence of rounds, in each of which one pair of
\* processes meets, no pair twice.
Calendars ==
  UNION {{s \in [1..n -> Pairs] : \A i, j \in 1..n : i # j => s[i] # s[j]} :
           n \in 0..Cardinality(Pairs)}

\* my_matches of process r under a calendar: the processes it meets, in
\* the order of the rounds.
RECURSIVE MatchesOf(_, _)
MatchesOf(cal, r) ==
  IF cal = <<>> THEN <<>>
  ELSE LET m == cal[1]
           rest == MatchesOf(Tail(cal), r)
       IN IF m[1] = r THEN <<m[2]>> \o rest
          ELSE IF m[2] = r THEN <<m[1]>> \o rest
          ELSE rest

\* Decide if sending or receiving first.
SendsFirstAlways(r, inode) == TRUE
SendsFirst(r, inode) == r < inode

\* prunedtree[r]->celldata as BuildPrunedTree of process r left it in this
\* step.
OwnPrunedCells(r) ==
  [k \in 1..Len(PrunedTreeBefore(MaxLevel, r).celldata) |->
     [PrunedTreeBefore(MaxLevel, r).celldata[k] EXCEPT !.step = 1]]

\* What MPI_Recv leaves in a buffer of cells after taking a message.
Received(cells, msg) ==
  [k \in 1..Len(cells) |-> IF k <= Len(msg) THEN msg[k] ELSE cells[k]]

InitCommVars ==
  \E cal \in Calendars :
    /\ my_matches = [r \in Procs |-> MatchesOf(cal, r)]
    /\ cst = [r \in Procs |->
                [pc |-> "turn", iturn |-> 0, i |-> 0, send_turn |-> FALSE]]
    /\ ctree = [r \in Procs |->
                  [p \in Procs |->
                     IF p = r THEN OwnPrunedCells(r)
                     ELSE PrunedTreeBefore(MaxLevel, p).celldata]]
    /\ channel = [m \in Procs \X Procs |-> <<>>]
    /\ clog = [r \in Procs |-> <<>>]

IdleComm ==
  /\ my_matches = <<>>
  /\ cst = <<>>
  /\ ctree = <<>>
  /\ channel = <<>>
  /\ clog = <<>>

\* The process a rank talks to in its current turn.
Inode(r) == my_matches[r][cst[r].iturn + 1]

\* for (int iturn=0; iturn<my_matches.size(); iturn++): the head of a turn,
\* or the end of the loop.
TurnBegin(r) ==
  /\ cst[r].pc = "turn"
  /\ cst' = [cst EXCEPT ![r] =
               IF cst[r].iturn < Len(my_matches[r])
                 THEN [pc |-> "comm", iturn |-> cst[r].iturn, i |-> 0,
                       send_turn |-> SendsFirst(r, Inode(r))]
                 ELSE [cst[r] EXCEPT !.pc = "barrier"]]
  /\ UNCHANGED <<my_matches, ctree, channel, clog>>

\* The state of a rank after one pass of for (int i=0; i<2; i++).
AfterPass(st, send_turn) ==
  IF st.i + 1 < 2
    THEN [st EXCEPT !.i = st.i + 1, !.send_turn = send_turn]
    ELSE [pc |-> "turn", iturn |-> st.iturn + 1, i |-> 0,
          send_turn |-> send_turn]

Sending(r) == cst[r].pc = "comm" /\ cst[r].send_turn
Receiving(r) == cst[r].pc = "comm" /\ ~cst[r].send_turn

\* MPI_Send that returns once the message is buffered.
SendBuffered(r) ==
  /\ Sending(r)
  /\ channel' = [channel EXCEPT ![<<r, Inode(r)>>] = Append(@, ctree[r][r])]
  /\ clog' = [clog EXCEPT ![r] = Append(@, [op |-> "send", peer |-> Inode(r),
                                            cells |-> ctree[r][r]])]
  /\ cst' = [cst EXCEPT ![r] = AfterPass(cst[r], FALSE)]
  /\ UNCHANGED <<my_matches, ctree>>

\* MPI_Send that returns once the matching MPI_Recv has taken the message.
SendMatched(r) ==
  /\ Sending(r)
  /\ LET q == Inode(r)
     IN /\ Receiving(q)
        /\ Inode(q) = r
        /\ channel[<<r, q>>] = <<>>
        /\ ctree' = [ctree EXCEPT ![q][r] = Received(@, ctree[r][r])]
        /\ clog' = [clog EXCEPT
                      ![r] = Append(@, [op |-> "send", peer |-> q,
                                        cells |-> ctree[r][r]]),
                      ![q] = Append(@, [op |-> "recv", peer |-> r,
                                        cells |-> ctree[r][r]])]
        /\ cst' = [cst EXCEPT ![r] = AfterPass(cst[r], FALSE),
                              ![q] = AfterPass(cst[q], TRUE)]
  /\ UNCHANGED <<my_matches, channel>>

\* MPI_Recv of a buffered message.
RecvBuffered(r) ==
  /\ Receiving(r)
  /\ LET q == Inode(r)
     IN /\ channel[<<q, r>>] # <<>>
        /\ ctree' = [ctree EXCEPT ![r][q] = Received(@, Head(channel[<<q, r>>]))]
        /\ clog' = [clog EXCEPT ![r] = Append(@, [op |-> "recv", peer |-> q,
                                                  cells |-> Head(channel[<<q, r>>])])]
        /\ channel' = [channel EXCEPT ![<<q, r>>] = Tail(@)]
  /\ cst' = [cst EXCEPT ![r] = AfterPass(cst[r], TRUE)]
  /\ UNCHANGED my_matches

\* MPI_Barrier(MPI_COMM_WORLD): a rank leaves once every rank has entered.
Barrier(r) ==
  /\ cst[r].pc = "barrier"
  /\ \A q \in Procs : cst[q].pc \in {"barrier", "done"}
  /\ cst' = [cst EXCEPT ![r].pc = "done"]
  /\ UNCHANGED <<my_matches, ctree, channel, clog>>

(***************************************************************************)
(* SphSimulation: Setup, Run, MainLoop, Output                             *)
(***************************************************************************)

\* Bounds of the simulation model.
MaxTime == 3          \* tend is 1 or MaxTime
MaxDt == 2            \* the timestep of a step in 0 .. MaxDt
MaxRuns == 2          \* Run is called at most MaxRuns times

\* The parameters Setup reads.
SimParams ==
  [hydro_forces : {0, 1}, self_gravity : {0, 1}, Npart : {0, MaxNsph},
   tend : {1, MaxTime}, dt_snap : {1, MaxDt}, Nstepsmax : {1, MaxStep}]

\* What the force routines of the neighbour search add for particle i
\* (0-based): the hydrodynamic and the gravitational acceleration.
HydroAcc(i) == i + 1
GravAcc(i) == 10 * (i + 1)

\* Zero accelerations (perhaps)
ZeroAccelerations(data) ==
  [i \in 1..Len(data) |-> [a |-> 0, agrav |-> 0, hydro |-> 0]]

\* sphneib->UpdateAllSphForces, if hydro_forces == 1
UpdateAllSphForces(hydro_forces, data) ==
  IF hydro_forces = 1
    THEN [i \in 1..Len(data) |->
            [data[i] EXCEPT !.a = @ + HydroAcc(i - 1),
                            !.hydro = @ + HydroAcc(i - 1)]]
    ELSE data

\* sphneib->UpdateAllGravityForces, if self_gravity == 1
UpdateAllGravityForces(self_gravity, data) ==
  IF self_gravity = 1
    THEN [i \in 1..Len(data) |-> [data[i] EXCEPT !.agrav = @ + GravAcc(i - 1)]]
    ELSE data

\* Add accelerations:  sph->sphdata[i].a[k] = sph->sphdata[i].agrav[k]
AddAccelerations(data) ==
  [i \in 1..Len(data) |-> [data[i] EXCEPT !.a = data[i].agrav]]

\* The force phase of Setup and of MainLoop, run only if sph->Nsph > 0.
ForcePhase(p, data) ==
  IF Len(data) > 0
    THEN AddAccelerations(
           UpdateAllGravityForces(p.self_gravity,
             UpdateAllSphForces(p.hydro_forces, ZeroAccelerations(data))))
    ELSE data

\* The decimal digits of a number, and a string of digits filled with '0'
\* up to the width w:  ss << setfill('0') << setw(5) << Noutsnap
RECURSIVE Digits(_)
Digits(k) == IF k < 10 THEN <<k>> ELSE Digits(k \div 10) \o <<k % 10>>

RECURSIVE SetW(_, _)
SetW(w, s) == IF Len(s) >= w THEN s ELSE SetW(w, <<0>> \o s)

\* filename = run_id + '.' + fileform + '.' + nostring
SnapshotName(p, Noutsnap) == <<"run_id", "fileform", SetW(5, Digits(Noutsnap))>>

\* if (Nadvance < 0) Ntarget = Nstepsmax; else Ntarget = Nsteps + Nadvance;
NtargetAlwaysMax(Nadvance, Nsteps, Nstepsmax) == Nstepsmax
Ntarget(Nadvance, Nsteps, Nstepsmax) ==
  IF Nadvance < 0 THEN Nstepsmax ELSE Nsteps + Nadvance

\* if (t >= tsnapnext)
SnapshotDueAlways(t, tsnapnext) == TRUE
SnapshotDue(t, tsnapnext) == t >= tsnapnext

\* ComputeBlockTimesteps: the smallest timestep of the particles, or
\* big_number if there is none.
Timesteps(Nsph) == IF Nsph = 0 THEN {BIG} ELSE 0..MaxDt

\* The simulation after its constructor, with the parameter file it will
\* read.
InitSimVars ==
  \E p \in SimParams :
    sim = [pc |-> "constructed", params |-> p,
           n |-> 0, Nsteps |-> 0, t |-> 0, timestep |-> 0,
           Nsph |-> 0, Nstepsmax |-> 0, tend |-> 0, dt_snap |-> 0,
           Noutsnap |-> 0, tsnapnext |-> 0, Ntarget |-> 0,
           sphdata |-> <<>>, files |-> <<>>,
           runs |-> 0, Nadvance |-> 0, mainloops |-> 0, outputs |-> 0,
           entry |-> [Nsteps |-> 0],
           step |-> [n |-> 0, Nsteps |-> 0, t |-> 0],
           out |-> [t |-> 0, tsnapnext |-> 0, Noutsnap |-> 0, files |-> 0]]

IdleSim == sim = <<>>

\* SphSimulation::Setup
Setup ==
  /\ sim.pc = "constructed"
  /\ LET p == sim.params
     IN sim' = [sim EXCEPT
                  !.pc = "ready",
                  !.Nsph = p.Npart, !.Nstepsmax = p.Nstepsmax,
                  !.tend = p.tend, !.dt_snap = p.dt_snap,
                  !.Noutsnap = 0, !.tsnapnext = p.dt_snap,
                  !.sphdata = ForcePhase(p, [i \in 1..p.Npart |->
                                               [a |-> 0, agrav |-> 0,
                                                hydro |-> 0]])]

\* SphSimulation::Run(Nadvance), up to the loop.
Run ==
  /\ sim.pc \in {"ready", "returned"}
  /\ sim.runs < MaxRuns
  /\ \E Nadvance \in {-1, 0, 1, MaxStep} :
       sim' = [sim EXCEPT
                 !.pc = "while",
                 !.Nadvance = Nadvance,
                 !.Ntarget = Ntarget(Nadvance, sim.Nsteps, sim.Nstepsmax),
                 !.runs = @ + 1, !.mainloops = 0, !.outputs = 0,
                 !.entry = [Nsteps |-> sim.Nsteps]]

\* while (t < tend && Nsteps < Ntarget)
RunLoop ==
  /\ sim.pc = "while"
  /\ sim' = [sim EXCEPT !.pc = IF sim.t < sim.tend /\ sim.Nsteps < sim.Ntarget
                                 THEN "MainLoop" ELSE "returned"]

\* SphSimulation::MainLoop
MainLoop ==
  /\ sim.pc = "MainLoop"
  /\ \E dt \in Timesteps(sim.Nsph) :
       sim' = [sim EXCEPT
                 !.pc = "Output",
                 !.timestep = dt,
                 !.n = @ + 1, !.Nsteps = @ + 1, !.t = @ + dt,
                 !.sphdata = ForcePhase(sim.params, @),
                 !.mainloops = @ + 1,
                 !.step = [n |-> sim.n, Nsteps |-> sim.Nsteps, t |-> sim.t]]

\* SphSimulation::Output
Output ==
  /\ sim.pc = "Output"
  /\ LET due == SnapshotDue(sim.t, sim.tsnapnext)
     IN sim' = [sim EXCEPT
                  !.pc = "while",
                  !.Noutsnap = IF due THEN @ + 1 ELSE @,
                  !.tsnapnext = IF due THEN @ + sim.dt_snap ELSE @,
                  !.files = IF due
                              THEN Append(@, SnapshotName(sim.params,
                                                          sim.Noutsnap + 1))
                              ELSE @,
                  !.outputs = @ + 1,
                  !.out = [t |-> sim.t, tsnapnext |-> sim.tsnapnext,
                           Noutsnap |-> sim.Noutsnap,
                           files |-> Len(sim.files)]]

(***************************************************************************)
(* Parameters: SetDefaultValues, ParseLine, SetParameter                   *)
(***************************************************************************)

\* The names and values a line of a parameter file may hold, as strings of
\* characters: "n" is a key of intparams, "t" of floatparams, "s" of
\* stringparams; "1" is a digit.
ParamNames == {<<"n">>, <<"t">>, <<"s">>, <<"z">>, <<" ", "n", " ">>}
ParamValues == {<<"1">>, <<"x">>, <<" ", "1", ":">>, <<>>}
ParamLines ==
  {<<"x", ":">> \o nm \o <<"=">> \o v : nm \in ParamNames, v \in ParamValues}
  \cup {nm \o <<"=">> \o v \o <<":">> :
          nm \in {<<"n">>, <<"z">>}, v \in ParamValues}
  \cup {<<":">> \o nm \o v : nm \in {<<"n">>, <<"z">>}, v \in ParamValues}
  \cup {nm \o <<"=">> \o v : nm \in {<<"n">>, <<"z">>}, v \in ParamValues}
  \cup {<<>>, <<"x">>}

\* Parameters::SetDefaultValues: the keys of the three maps and their
\* values.
SetDefaultValues ==
  [intparams |-> (<<"n">> :> 100),
   floatparams |-> (<<"t">> :> 10),
   stringparams |-> (<<"s">> :> <<"x", "x">>)]

\* paramline.find(ch): the 0-based position of the first ch, or npos (-1).
RECURSIVE FindFrom(_, _, _)
FindFrom(str, ch, k) ==
  IF k > Len(str) THEN -1
  ELSE IF str[k] = ch THEN k - 1
  ELSE FindFrom(str, ch, k + 1)

Find(str, ch) == FindFrom(str, ch, 1)

\* paramline.substr(pos, count)
Substr(str, pos, count) == SubSeq(str, pos + 1, pos + count)

\* Parameters::trim2: the spaces after the last and before the first
\* character that is not a space are erased; a string of spaces is emptied.
RECURSIVE DropTrailing(_)
DropTrailing(str) ==
  IF str # <<>> /\ str[Len(str)] = " "
    THEN DropTrailing(SubSeq(str, 1, Len(str) - 1)) ELSE str

RECURSIVE DropLeading(_)
DropLeading(str) ==
  IF str # <<>> /\ str[1] = " " THEN DropLeading(Tail(str)) ELSE str

trim2(str) == DropLeading(DropTrailing(str))

\* std::stringstream(value) >> number: the digits at the head of the value
\* are read; without a digit the extraction fails and the number becomes 0
\* (C++11) or keeps its value (earlier standards).
RECURSIVE ReadDigits(_, _)
ReadDigits(str, acc) ==
  IF str # <<>> /\ str[1] = "1" THEN ReadDigits(Tail(str), 10 * acc + 1)
  ELSE acc

Extract(value, old, cxx11) ==
  IF value # <<>> /\ value[1] = "1" THEN ReadDigits(value, 0)
  ELSE IF cxx11 THEN 0 ELSE old

\* A wrong variant of SetParameter, to compare against: an unknown key is
\* entered into stringparams.
SetParameterInsert(maps, key, value, cxx11) ==
  [maps |-> [maps EXCEPT !.stringparams = (key :> value) @@ @],
   warned |-> FALSE]

\* Parameters::SetParameter(key, value)
SetParameter(maps, key, value, cxx11) ==
  IF key \in DOMAIN maps.intparams
    THEN [maps |-> [maps EXCEPT !.intparams[key] = Extract(value, @, cxx11)],
          warned |-> FALSE]
  ELSE IF key \in DOMAIN maps.floatparams
    THEN [maps |-> [maps EXCEPT !.floatparams[key] = Extract(value, @, cxx11)],
          warned |-> FALSE]
  ELSE IF key \in DOMAIN maps.stringparams
    THEN [maps |-> [maps EXCEPT !.stringparams[key] = value],
          warned |-> FALSE]
  ELSE [maps |-> maps, warned |-> TRUE]

\* Parameters::ParseLine(paramline)
ParseLine(maps, paramline, cxx11) ==
  LET colon_pos == Find(paramline, ":")
      equal_pos == Find(paramline, "=")
      length == Len(paramline)
  IN IF colon_pos = -1 \/ equal_pos = -1 \/ colon_pos >= equal_pos
       THEN [maps |-> maps, warned |-> FALSE]
       ELSE SetParameter(
              maps,
              trim2(Substr(paramline, colon_pos + 1,
                           equal_pos - colon_pos - 1)),
              trim2(Substr(paramline, equal_pos + 1, length - equal_pos - 1)),
              cxx11)

\* Parameters::Parameters: the maps hold the defaults.
InitParamVars ==
  \E cxx11 \in BOOLEAN :
    prm = [maps |-> SetDefaultValues, cxx11 |-> cxx11, warned |-> FALSE,
           call |-> [op |-> "Parameters"]]

\* A line of the parameter file is parsed.
ParseLineCall ==
  \E paramline \in ParamLines :
    LET res == ParseLine(prm.maps, paramline, prm.cxx11)
    IN prm' = [prm EXCEPT !.maps = res.maps, !.warned = res.warned,
                          !.call = [op |-> "ParseLine", paramline |-> paramline]]

\* SetParameter is called by other code.
SetParameterCall ==
  \E nm \in ParamNames, v \in ParamValues :
    LET res == SetParameter(prm.maps, trim2(nm), trim2(v), prm.cxx11)
    IN prm' = [prm EXCEPT !.maps = res.maps, !.warned = res.warned,
                          !.call = [op |-> "SetParameter", key |-> trim2(nm),
                                    value |-> trim2(v)]]

(***************************************************************************)
(* SphSimulation::ProcessParameters and SphSimulation::GenerateIC          *)
(***************************************************************************)

\* The values of the options in the parameter file: the ones the code
\* knows, another word, and the empty string that the map gives for a
\* missing key.
Options ==
  [sph : {"gradh", "sm2012", ""},
   kernel : {"m4", "quintic"},
   neib_search : {"bruteforce", "tree"},
   sph_integration : {"lfkdk", "rk4"},
   gas_eos : {"energy_eqn", "isothermal", "barotropic"},
   energy_integration : {"PEC", "euler"},
   ic : {"random_cube", "random_sphere", "shocktube", "khi", "file", ""}]

\* ExceptionHandler::raise: the message is reported and the run ends.
Raise(st, message) == [st EXCEPT !.pc = "raised", !.message = message]

\* The object made for the value of an option, "" if the code knows no
\* object for it.
CreateAlways(option, value) ==
  CASE option = "sph" -> "GradhSph"
    [] option = "kernel" -> "M4Kernel"
    [] option = "neib_search" -> "BruteForceSearch"
    [] option = "sph_integration" -> "SphLFKDK"
    [] option = "gas_eos" -> "Isothermal"
    [] option = "energy_integration" -> "EnergyPEC"
    [] option = "ic" -> "RandomBox"

Create(option, value) ==
  CASE option = "sph" /\ value = "gradh" -> "GradhSph"
    [] option = "kernel" /\ value = "m4" -> "M4Kernel"
    [] option = "neib_search" /\ value = "bruteforce" -> "BruteForceSearch"
    [] option = "sph_integration" /\ value = "lfkdk" -> "SphLFKDK"
    [] option = "gas_eos" /\ value = "energy_eqn" -> "Adiabatic"
    [] option = "gas_eos" /\ value = "isothermal" -> "Isothermal"
    [] option = "energy_integration" /\ value = "PEC" -> "EnergyPEC"
    [] option = "ic" /\ value = "random_cube" -> "RandomBox"
    [] option = "ic" /\ value = "random_sphere" -> "RandomSphere"
    [] option = "ic" /\ value = "shocktube" -> "ShockTube"
    [] option = "ic" /\ value = "khi" -> "KHI"
    [] OTHER -> ""

\* One if/else of ProcessParameters or GenerateIC: the object of the option
\* is made, or the error is raised. Nothing is done once the run has ended.
Choose(st, option) ==
  IF st.pc = "raised" THEN st
  ELSE LET made == Create(option, st.params[option])
       IN IF made # ""
            THEN [st EXCEPT !.made = (option :> made) @@ @]
            ELSE Raise(st, <<"Unrecognised parameter", option,
                             st.params[option]>>)

\* The thermal physics options of ProcessParameters.
ChooseThermal(st) ==
  IF st.pc = "raised" THEN st
  ELSE IF st.params.gas_eos = "energy_eqn"
    THEN Choose(Choose(st, "gas_eos"), "energy_integration")
    ELSE Choose(st, "gas_eos")

InitProcessVars ==
  \E params \in Options :
    pp = [pc |-> "Setup", params |-> params, made |-> <<>>,
          message |-> <<>>, raisedby |-> ""]

IdleProcess == pp = <<>>

\* SphSimulation::ProcessParameters
ProcessParameters ==
  /\ pp # <<>>
  /\ pp.pc = "Setup"
  /\ LET st == ChooseThermal(
                 Choose(Choose(Choose(Choose(pp, "sph"), "kernel"),
                               "neib_search"), "sph_integration"))
     IN pp' = IF st.pc = "raised"
                THEN [st EXCEPT !.raisedby = "ProcessParameters"]
                ELSE [st EXCEPT !.pc = "ProcessParameters"]

\* SphSimulation::GenerateIC
GenerateIC ==
  /\ pp # <<>>
  /\ pp.pc = "ProcessParameters"
  /\ LET st == Choose(pp, "ic")
     IN pp' = IF st.pc = "raised"
                THEN [st EXCEPT !.raisedby = "GenerateIC"]
                ELSE [st EXCEPT !.pc = "GenerateIC"]

(***************************************************************************)
(* main of an MPI build                                                    *)
(***************************************************************************)

\* The command lines of a run (argc and whether argv[1] is "-r"), whether
\* each process finds the parameter file, and whether the MPI library
\* gives no thread support to an OpenMP build.
CommandLines ==
  {[argc |-> 1, r |-> FALSE], [argc |-> 2, r |-> FALSE],
   [argc |-> 3, r |-> TRUE], [argc |-> 3, r |-> FALSE],
   [argc |-> 4, r |-> FALSE]}

InitMainVars ==
  \E cmd \in CommandLines, found \in [Procs -> BOOLEAN],
     single \in BOOLEAN :
    mainp = [cmd |-> cmd, found |-> found, single |-> single,
             pc |-> [p \in Procs |-> "MPI_Init"],
             mpi |-> [p \in Procs |-> 0],
             paramfile |-> [p \in Procs |-> ""],
             restart |-> [p \in Procs |-> FALSE],
             cont |-> [p \in Procs |-> FALSE],
             read |-> [p \in Procs |-> "none"],
             message |-> [p \in Procs |-> ""]]

IdleMain == mainp = <<>>

Ended(pc) == pc \in {"exited", "aborted", "returned"}

\* exit(-1): the calling process ends.
Exit(st, p, message) ==
  [st EXCEPT !.pc[p] = "exited", !.message[p] = message]

\* ExceptionHandler::raise: with the mpi flag set MPI_Abort ends every
\* process of the run, otherwise the calling process ends.
RaiseMain(st, p, message) ==
  IF st.mpi[p] = 1
    THEN [st EXCEPT !.pc = [q \in Procs |->
                              IF q = p \/ ~Ended(st.pc[q]) THEN "aborted"
                              ELSE st.pc[q]],
                    !.message[p] = message]
    ELSE Exit(st, p, message)

\* MPI_Init and MPI_Comm_rank
MPIInit(p) ==
  /\ mainp.pc[p] = "MPI_Init"
  /\ mainp' = [mainp EXCEPT !.pc[p] = "set_mpi"]

\* ExceptionHandler::set_mpi(1)
SetMpi(p) ==
  /\ mainp.pc[p] = "set_mpi"
  /\ mainp' = [mainp EXCEPT !.pc[p] = "MPI_Query_thread", !.mpi[p] = 1]

\* The test that OpenMP and MPI work together.
QueryThread(p) ==
  /\ mainp.pc[p] = "MPI_Query_thread"
  /\ mainp' = IF mainp.single
                THEN RaiseMain(mainp, p, "not interoperable with OpenMP")
                ELSE [mainp EXCEPT !.pc[p] = "arguments"]

\* The command-line arguments are parsed.
ParseArguments(p) ==
  /\ mainp.pc[p] = "arguments"
  /\ mainp' =
       IF mainp.cmd.argc = 3
         THEN [mainp EXCEPT !.pc[p] = "cont",
                            !.restart[p] = mainp.cmd.r,
                            !.paramfile[p] = IF mainp.cmd.r THEN "argv[2]"
                                             ELSE ""]
       ELSE IF mainp.cmd.argc = 2
         THEN [mainp EXCEPT !.pc[p] = "cont",
                            !.paramfile[p] = "argv[1]"]
       ELSE Exit(mainp, p, "No parameter file specified")

\* The empty file "cont" is created.
CreateCont(p) ==
  /\ mainp.pc[p] = "cont"
  /\ mainp' = [mainp EXCEPT !.pc[p] = "ReadParamsFile", !.cont[p] = TRUE]

\* Parameters::ReadParamsFile(paramfile): a file that cannot be opened
\* ends the process.
ReadParamsFile(p) ==
  /\ mainp.pc[p] = "ReadParamsFile"
  /\ mainp' =
       IF mainp.paramfile[p] # "" /\ mainp.found[p]
         THEN [mainp EXCEPT !.pc[p] = "Run", !.read[p] = mainp.paramfile[p]]
         ELSE Exit([mainp EXCEPT !.read[p] = mainp.paramfile[p]], p,
                   "parameter file does not exist")

\* Set-up and run of the simulation raise a fatal error.
RunFails(p) ==
  /\ mainp.pc[p] = "Run"
  /\ mainp' = RaiseMain(mainp, p, "fatal error")

\* Set-up and run of the simulation, MPI_Finalize and return; the run
\* exchanges data with every other process, so it ends only if all of
\* them take part.
RunReturns(p) ==
  /\ mainp.pc[p] = "Run"
  /\ \A q \in Procs : mainp.pc[q] \in {"Run", "returned"}
  /\ mainp' = [mainp EXCEPT !.pc[p] = "returned"]

(***************************************************************************)
(* SphTree::CheckValidNeighbourList                                        *)
(***************************************************************************)

MaxNtot == 3          \* particles handed to the check
MaxNneib == 2         \* entries of the neighbour list handed to the check

\* kernrangesqd of the model: a kernel of range 2.
kernrangesqd == 4

\* The particles (position r on a line and smoothing length h), the
\* particle i, the kind of search and the neighbour list of a call.
CheckInputs ==
  {[partdata |-> [j \in 0..(MaxNtot - 1) |->
                    [r |-> IF j = 0 THEN 0 ELSE r[j], h |-> h[j]]],
    i |-> i, neibtype |-> neibtype, Nneib |-> Len(neiblist),
    neiblist |-> neiblist] :
     r \in [1..(MaxNtot - 1) -> {0, 2, 3}],
     h \in [0..(MaxNtot - 1) -> {0, 1}],
     i \in {0, MaxNtot - 1},
     neibtype \in {"gather", "all"},
     neiblist \in UNION {[1..n -> 0..(MaxNtot - 1)] : n \in 0..MaxNneib}}

DistanceSqd(partdata, i, j) ==
  (partdata[j].r - partdata[i].r) * (partdata[j].r - partdata[i].r)

\* A wrong variant of the neighbour test, to compare against: the gather
\* test is used for both kinds of search.
IsTrueNeighbourGather(partdata, i, j, neibtype) ==
  DistanceSqd(partdata, i, j) <= kernrangesqd * partdata[i].h * partdata[i].h

\* The test that puts particle j on the list of true neighbours of i.
IsTrueNeighbour(partdata, i, j, neibtype) ==
  IF neibtype = "gather"
    THEN DistanceSqd(partdata, i, j)
           <= kernrangesqd * partdata[i].h * partdata[i].h
  ELSE IF neibtype = "all"
    THEN \/ DistanceSqd(partdata, i, j)
              < kernrangesqd * partdata[i].h * partdata[i].h
         \/ DistanceSqd(partdata, i, j)
              < kernrangesqd * partdata[j].h * partdata[j].h
  ELSE FALSE

\* trueneiblist: the true neighbours in the order of the loop over j.
RECURSIVE trueneiblist(_, _, _, _)
trueneiblist(partdata, i, neibtype, j) ==
  IF j >= MaxNtot THEN <<>>
  ELSE (IF IsTrueNeighbour(partdata, i, j, neibtype) THEN <<j>> ELSE <<>>)
         \o trueneiblist(partdata, i, neibtype, j + 1)

\* count: the entries of neiblist equal to id.
RECURSIVE CountInList(_, _)
CountInList(neiblist, id) ==
  IF neiblist = <<>> THEN 0
  ELSE (IF Head(neiblist) = id THEN 1 ELSE 0)
         + CountInList(Tail(neiblist), id)

\* InsertionSortIds
RECURSIVE InsertId(_, _)
InsertId(sorted, id) ==
  IF sorted = <<>> THEN <<id>>
  ELSE IF id < Head(sorted) THEN <<id>> \o sorted
  ELSE <<Head(sorted)>> \o InsertId(Tail(sorted), id)

RECURSIVE InsertionSortIds(_)
InsertionSortIds(list) ==
  IF list = <<>> THEN <<>>
  ELSE InsertId(InsertionSortIds(SubSeq(list, 1, Len(list) - 1)),
                list[Len(list)])

\* The loop over the true neighbours from the j-th on: the first one with
\* a count other than 1 has the list sorted and the error raised.
RECURSIVE Validate(_, _, _)
Validate(st, truelist, j) ==
  IF j > Len(truelist) THEN [st EXCEPT !.pc = "returned"]
  ELSE LET count == CountInList(st.neiblist, truelist[j])
       IN IF count # 1
            THEN [st EXCEPT !.pc = "raised",
                            !.neiblist = InsertionSortIds(@),
                            !.message = <<"Problem with neighbour lists",
                                          truelist[j], count>>]
            ELSE Validate(st, truelist, j + 1)

InitCheckVars ==
  \E in \in CheckInputs :
    chk = [pc |-> "call", partdata |-> in.partdata, i |-> in.i,
           neibtype |-> in.neibtype, Nneib |-> in.Nneib,
           neiblist |-> in.neiblist, given |-> in.neiblist,
           message |-> <<>>]

IdleCheck == chk = <<>>

\* SphTree::CheckValidNeighbourList(i, Ntot, Nneib, neiblist, partdata,
\* neibtype)
CheckValidNeighbourList ==
  /\ chk # <<>>
  /\ chk.pc = "call"
  /\ chk' = Validate(chk, trueneiblist(chk.partdata, chk.i, chk.neibtype, 0),
                     1)

(***************************************************************************)
(* SphTree::FindLoadBalancingDivision                                      *)
(***************************************************************************)

MaxNodes == 2         \* nodes on the left of the division

\* The arguments of a call: positions are even numbers, so that the
\* midpoint of two of them is a whole number.
BalanceInputs ==
  [r_old : {2, 4, 6}, bbmin : {0, 2}, bbmax : {4, 8},
   leftnodes : UNION {[1..n -> {0}] : n \in 0..MaxNodes}]

\* workleft / (workleft + workright): 0.0/0.0 is not a number under IEEE
\* arithmetic and undefined otherwise, so it may compare in any way; other
\* quotients compare as their value does.
Divide(workleft, workright) ==
  IF workleft + workright = 0 THEN {"nan", "low", "high", "balanced"}
  ELSE IF 1000 * workleft < 499 * (workleft + workright) THEN {"low"}
  ELSE IF 1000 * workleft > 501 * (workleft + workright) THEN {"high"}
  ELSE {"balanced"}

\* A wrong variant of the first test, to compare against.
TooLowNever(workfrac) == FALSE

\* workfrac < 0.5 - worktol
TooLow(workfrac) == workfrac = "low"

\* workfrac > 0.5 + worktol
TooHigh(workfrac) == workfrac = "high"

\* fabs(workfrac - 0.5) < worktol
WithinTolerance(workfrac) == workfrac = "balanced"

\* The loop over leftnodes: no work is added.
RECURSIVE SumWork(_, _)
SumWork(nodes, work) ==
  IF nodes = <<>> THEN work ELSE SumWork(Tail(nodes), work)

InitBalanceVars ==
  \E in \in BalanceInputs :
    lb = [pc |-> "call", in |-> in, r_divide |-> 0, r_min |-> 0,
          r_max |-> 0, workleft |-> -1, workright |-> -1,
          workfrac |-> "none", bodies |-> 0, tests |-> <<>>,
          result |-> -1]

IdleBalance == lb = <<>>

\* The declarations at the head of the function.
EnterBalance ==
  /\ lb # <<>>
  /\ lb.pc = "call"
  /\ lb' = [lb EXCEPT !.pc = "do", !.r_divide = lb.in.r_old,
                      !.r_max = lb.in.bbmax, !.r_min = lb.in.bbmin]

\* The body of the do-while loop.
BalanceBody ==
  /\ lb # <<>>
  /\ lb.pc = "do"
  /\ LET workleft == SumWork(lb.in.leftnodes, 0)
         workright == 0
     IN \E workfrac \in Divide(workleft, workright) :
          LET st == [lb EXCEPT !.workleft = workleft,
                               !.workright = workright,
                               !.workfrac = workfrac,
                               !.bodies = @ + 1,
                               !.tests = Append(@, <<workleft, workright>>)]
          IN lb' =
               IF TooLow(workfrac)
                 THEN [st EXCEPT !.r_min = lb.r_divide,
                                 !.r_divide = (lb.r_divide + lb.r_max) \div 2,
                                 !.pc = "while"]
               ELSE IF TooHigh(workfrac)
                 THEN [st EXCEPT !.r_max = lb.r_divide,
                                 !.r_divide = (lb.r_min + lb.r_divide) \div 2,
                                 !.pc = "while"]
               ELSE [st EXCEPT !.pc = "return"]

\* The condition of the do-while loop.
BalanceWhile ==
  /\ lb # <<>>
  /\ lb.pc = "while"
  /\ lb' = [lb EXCEPT !.pc = IF WithinTolerance(lb.workfrac) THEN "do"
                             ELSE "return"]

\* return r_divide
BalanceReturn ==
  /\ lb # <<>>
  /\ lb.pc = "return"
  /\ lb' = [lb EXCEPT !.pc = "returned", !.result = lb.r_divide]

(***************************************************************************)
(* The skip-pointer walks: SearchMpiGhostParticles,                        *)
(* SearchHydroExportParticles and FindMpiTransferParticles                 *)
(***************************************************************************)

\* mpinodes[n].domain: the nodes own pairwise disjoint slabs of the box
\* along x, and the whole box along y and z.
NodeDomain(n) ==
  [boxmin |-> [k \in Dims |-> IF k = 1 THEN (CASE n = 0 -> 0 [] n = 1 -> 3
                                               [] OTHER -> 11)
                              ELSE BoxMin],
   boxmax |-> [k \in Dims |-> IF k = 1 THEN (CASE n = 0 -> 2 [] n = 1 -> 10
                                               [] OTHER -> BoxMax)
                              ELSE BoxMax]]

\* BoxOverlap(ndim, box1min, box1max, box2min, box2max)
BoxOverlap(box1min, box1max, box2min, box2max) ==
  \A k \in Dims : box1min[k] <= box2max[k] /\ box2min[k] <= box1max[k]

\* ParticleInBox(part, box)
ParticleInBox(part, box) ==
  \A k \in Dims : part.r[k] >= box.boxmin[k] /\ part.r[k] <= box.boxmax[k]

\* The scatter box of a cell against mpibox, with the cell velocity
\* v = vsum/N and both sides multiplied by N:
\*   scattermin[k] = bbmin[k] + min(0.0, v[k]*tghost) - grange*hmax
\*   scattermax[k] = bbmax[k] + max(0.0, v[k]*tghost) + grange*hmax
ScatterOverlap(cell, tghost, mpibox) ==
  LET den == Max(cell.N, 1)
  IN \A k \in Dims :
       /\ den * cell.bbmin[k] + Min(0, cell.vsum[k] * tghost)
            - den * grange * cell.hmax <= den * mpibox.boxmax[k]
       /\ den * mpibox.boxmin[k]
            <= den * cell.bbmax[k] + Max(0, cell.vsum[k] * tghost)
                 + den * grange * cell.hmax

\* The member Ncell of SphTree itself, which no constructor and no function
\* of SphTree assigns: whatever its storage holds.
UninitialisedNcell == {0, TreeNcell - 4, TreeNcell, TreeNcell + 1}

\* What lies behind the last cell of tree->celldata: a cell whose fields
\* hold whatever the storage holds.
BeyondCells ==
  { [level |-> l, cnext |-> n, N |-> 0, Nactive |-> 0, ifirst |-> -1,
     ilast |-> -1, hmax |-> 0, vsum |-> [k \in Dims |-> 0],
     bbmin |-> [k \in Dims |-> b[1]], bbmax |-> [k \in Dims |-> b[2]]] :
      l \in {0, ltot}, n \in {TreeNcell, TreeNcell + 1},
      b \in {<<BoxMin, BoxMax>>, <<BIG, -BIG>>} }

NoBeyond == CHOOSE b \in BeyondCells : b.cnext = TreeNcell + 1 /\ b.level = 0
                                        /\ b.bbmin[1] = BIG

\* The trees of periodic ghosts the model walks: at most one ghost.
GhostTreeInputs == {t \in TreeInputs : SumSeq(t.sizes) <= 1}

\* &(tree->celldata[c])
CellAt(tree, beyond, c) ==
  IF c < tree.Ncell THEN tree.celldata[c] ELSE beyond

\* The particle loop of a leaf, as the ids it visits in order:
\*   i = ifirst; while (i != -1) {...; if (i == ilast) break; i = inext[i];}
RECURSIVE LeafScan(_, _, _)
LeafScan(tree, cell, i) ==
  IF i = -1 THEN <<>>
  ELSE <<i>> \o (IF i = cell.ilast THEN <<>>
                 ELSE LeafScan(tree, cell, tree.inext[i]))

\* The cursor after the iteration of cell c:
\*   if (open) { if (level != ltot) c++; else c = cnext; } else c = cnext;
NextCell(tree, cell, c, open) ==
  IF open /\ cell.level # tree.ltot THEN c + 1 ELSE cell.cnext

\* Whether the iteration reaches the body of a leaf with particles.
InLeaf(tree, cell, open) ==
  open /\ cell.level = tree.ltot /\ cell.N # 0

Bump(visits, c) ==
  [visits EXCEPT ![Min(c, TreeNcell)] = Min(@ + 1, 2)]

NoVisits == [c \in 0..TreeNcell |-> 0]

WalkBase(fn, t) ==
  [fn |-> fn, pc |-> "walk", pass |-> 1, c |-> 0,
   parts |-> WithOrigin(t.parts),
   tree |-> StockedTree(t.parts, t.sizes),
   ghosttree |-> StockedTree(<<>>, [l \in 1..Pow2(ltot) |-> 0]),
   Ncell |-> TreeNcell, beyond |-> NoBeyond,
   tghost |-> 0, mpibox |-> NodeDomain(0), potential_nodes |-> <<>>,
   visits |-> NoVisits, Nexport |-> 0, export_list |-> <<>>,
   particles_to_export |-> [n \in Procs |-> <<>>]]

InitWalkVars ==
  \E t \in TreeInputs :
    \/ \E tg \in {0, 1}, n \in {0, 2}, g \in GhostTreeInputs :
         wk = [WalkBase("SearchMpiGhostParticles", t) EXCEPT
                 !.tghost = tg, !.mpibox = NodeDomain(n),
                 !.ghosttree = StockedTree(g.parts, g.sizes)]
    \/ \E n \in {0, 2} :
         wk = [WalkBase("SearchHydroExportParticles", t) EXCEPT
                 !.mpibox = NodeDomain(n)]
    \/ \E nodes \in {<<>>, <<0>>, <<0, 2>>}, nc \in UninitialisedNcell :
       \E b \in IF nc > TreeNcell THEN BeyondCells ELSE {NoBeyond} :
         wk = [WalkBase("FindMpiTransferParticles", t) EXCEPT
                 !.potential_nodes = nodes, !.Ncell = nc, !.beyond = b,
                 !.pc = IF nodes = <<>> THEN "returned" ELSE "walk"]

\* SearchMpiGhostParticles: one iteration of the walk of tree (pass 1) or
\* of ghosttree (pass 2), or the end of a walk.
SearchMpiGhostParticles ==
  /\ wk # <<>> /\ wk.fn = "SearchMpiGhostParticles" /\ wk.pc = "walk"
  /\ LET tree == IF wk.pass = 1 THEN wk.tree ELSE wk.ghosttree
     IN IF wk.c < tree.Ncell
          THEN LET cell == CellAt(tree, wk.beyond, wk.c)
                   open == ScatterOverlap(cell, wk.tghost, wk.mpibox)
                   ids == IF InLeaf(tree, cell, open)
                            THEN LeafScan(tree, cell, cell.ifirst) ELSE <<>>
               IN wk' = [wk EXCEPT
                     !.export_list = @ \o ids,
                     !.Nexport = @ + Len(ids),
                     !.visits = Bump(@, wk.c),
                     !.c = NextCell(tree, cell, wk.c, open)]
          ELSE IF wk.pass = 1
            THEN wk' = [wk EXCEPT !.pass = 2, !.c = 0, !.visits = NoVisits]
            ELSE wk' = [wk EXCEPT !.pc = "returned"]

\* SearchHydroExportParticles: one iteration of the walk, or its end.
SearchHydroExportParticles ==
  /\ wk # <<>> /\ wk.fn = "SearchHydroExportParticles" /\ wk.pc = "walk"
  /\ IF wk.c < wk.tree.Ncell
       THEN LET cell == CellAt(wk.tree, wk.beyond, wk.c)
                open == ScatterOverlap(cell, 0, wk.mpibox)
                add == InLeaf(wk.tree, cell, open) /\ cell.Nactive > 0
            IN wk' = [wk EXCEPT
                  !.export_list = IF add THEN Append(@, wk.c) ELSE @,
                  !.Nexport = IF add THEN @ + cell.Nactive ELSE @,
                  !.visits = Bump(@, wk.c),
                  !.c = NextCell(wk.tree, cell, wk.c, open)]
       ELSE wk' = [wk EXCEPT !.pc = "returned"]

\* FindMpiTransferParticles: one iteration of the walk for the node
\* potential_nodes[inode] (pass is inode + 1), or the end of that walk.
\* The loop runs  while (c < Ncell)  on the member of SphTree itself.
FindMpiTransferParticles ==
  /\ wk # <<>> /\ wk.fn = "FindMpiTransferParticles" /\ wk.pc = "walk"
  /\ LET node_number == wk.potential_nodes[wk.pass]
         domain == NodeDomain(node_number)
     IN IF wk.c < wk.Ncell
          THEN LET cell == CellAt(wk.tree, wk.beyond, wk.c)
                   open == BoxOverlap(cell.bbmin, cell.bbmax,
                                      domain.boxmin, domain.boxmax)
                   InDomain(i) == ParticleInBox(wk.parts[i + 1], domain)
                   ids == IF InLeaf(wk.tree, cell, open)
                            THEN SelectSeq(LeafScan(wk.tree, cell, cell.ifirst),
                                           InDomain)
                            ELSE <<>>
               IN wk' = [wk EXCEPT
                     !.particles_to_export[node_number] = @ \o ids,
                     !.export_list = @ \o ids,
                     !.visits = Bump(@, wk.c),
                     !.c = NextCell(wk.tree, cell, wk.c, open)]
          ELSE IF wk.pass < Len(wk.potential_nodes)
            THEN wk' = [wk EXCEPT !.pass = @ + 1, !.c = 0,
                                  !.visits = NoVisits]
            ELSE wk' = [wk EXCEPT !.pc = "returned"]

(***************************************************************************)
(* AllocateMemory, DeallocateMemory and the destructor                     *)
(***************************************************************************)

\* Bounds of the buffer model.
MaxCalls == 4         \* at most MaxCalls calls on one object
MaxGather == 1        \* sph->Ngather in 0 .. MaxGather

\* The arrays AllocateMemory makes with new: the outer arrays, one slot per
\* thread (thread index -1 in the model), and the per-thread buffers.
OuterArrays ==
  {"Nneibmaxbuf", "Ndirectmaxbuf", "Ngravcellmaxbuf", "levelneibbuf",
   "activelistbuf", "activepartbuf", "neibpartbuf"}
Buffers ==
  {<<b, -1>> : b \in OuterArrays}
    \cup {<<b, t>> : b \in {"levelneibbuf", "activelistbuf", "activepartbuf",
                            "neibpartbuf"}, t \in Threads}

\* p = new ...[n]: the pointer holds a fresh block; a live block it held
\* before can no longer be freed.
New(m, b) ==
  [m EXCEPT !.heap[b] = "live",
            !.lost = IF m.heap[b] = "live" THEN @ \cup {b} ELSE @]

\* delete[] p: a live block is freed; anything else is a pointer that is
\* not the result of a new any more.
Delete(m, b) ==
  IF m.heap[b] = "live" THEN [m EXCEPT !.heap[b] = "freed"]
  ELSE [m EXCEPT !.invalid = @ \cup {b}]

RECURSIVE DoAll(_, _, _)
DoAll(Op(_, _), m, bs) ==
  IF bs = <<>> THEN m ELSE DoAll(Op, Op(m, Head(bs)), Tail(bs))

\* for (ithread=0; ithread<n; ithread++), as the blocks it names in order
RECURSIVE ForThreads(_, _)
ForThreads(Row(_), n) ==
  IF n <= 0 THEN <<>> ELSE ForThreads(Row, n - 1) \o Row(n - 1)

AllocateRow(n) ==
  << <<"levelneibbuf", n>>, <<"activelistbuf", n>>, <<"activepartbuf", n>>,
     <<"neibpartbuf", n>> >>
DeallocateRow(n) ==
  << <<"neibpartbuf", n>>, <<"activepartbuf", n>>, <<"levelneibbuf", n>> >>

\* The news of AllocateMemory, in order.
AllocateOrder ==
  << <<"Nneibmaxbuf", -1>>, <<"Ndirectmaxbuf", -1>>, <<"Ngravcellmaxbuf", -1>>,
     <<"levelneibbuf", -1>>, <<"activelistbuf", -1>>, <<"activepartbuf", -1>>,
     <<"neibpartbuf", -1>> >>
  \o ForThreads(AllocateRow, Nthreads)

\* The delete[]s of DeallocateMemory, in order.
DeallocateOrder ==
  ForThreads(DeallocateRow, Nthreads)
  \o << <<"neibpartbuf", -1>>, <<"activepartbuf", -1>>, <<"activelistbuf", -1>>,
        <<"levelneibbuf", -1>>, <<"Ngravcellmaxbuf", -1>>,
        <<"Ndirectmaxbuf", -1>>, <<"Nneibmaxbuf", -1>> >>

\* The body of AllocateMemory.
AllocateBody(m) ==
  IF ~m.allocated_buffer
    THEN [DoAll(New, m, AllocateOrder) EXCEPT
            !.Nneibmaxbuf = [t \in Threads |-> Max(1, 4 * m.Ngather)],
            !.allocated_buffer = TRUE]
    ELSE m

\* The body of DeallocateMemory; allocated_buffer is left as it is.
DeallocateBody(m) ==
  IF m.allocated_buffer THEN DoAll(Delete, m, DeallocateOrder) ELSE m

\* The object after its constructor: allocated_buffer = false, no buffer.
InitMemVars ==
  \E g \in 0..MaxGather, at \in BOOLEAN :
    mem = [allocated_buffer |-> FALSE, allocated_tree |-> at, Ngather |-> g,
           heap |-> [b \in Buffers |-> "none"], lost |-> {}, invalid |-> {},
           Nneibmaxbuf |-> [t \in Threads |-> 0], calls |-> <<>>,
           destroyed |-> FALSE]

AllocateMemoryCall ==
  /\ mem # <<>> /\ ~mem.destroyed /\ Len(mem.calls) < MaxCalls
  /\ mem' = [AllocateBody(mem) EXCEPT !.calls = Append(@, "AllocateMemory")]

DeallocateMemoryCall ==
  /\ mem # <<>> /\ ~mem.destroyed /\ Len(mem.calls) < MaxCalls
  /\ mem' = [DeallocateBody(mem) EXCEPT
               !.calls = Append(@, "DeallocateMemory")]

\* ~SphTree: if (tree->allocated_tree) { DeallocateMemory();
\* tree->DeallocateTreeMemory(); }
Destructor ==
  /\ mem # <<>> /\ ~mem.destroyed
  /\ mem' = [(IF mem.allocated_tree THEN DeallocateBody(mem) ELSE mem) EXCEPT
               !.allocated_tree = FALSE, !.destroyed = TRUE]

(***************************************************************************)
(* Specifications                                                          *)
(***************************************************************************)

\* The variables of the exchange and of the pruned trees are left alone by
\* the other routines.
IdleDriverExcept(v) ==
  /\ v # "sim" => sim = <<>>
  /\ v # "prm" => prm = <<>>
  /\ v # "pp" => pp = <<>>
  /\ v # "mainp" => mainp = <<>>
  /\ v # "chk" => chk = <<>>
  /\ v # "lb" => lb = <<>>
  /\ v # "wk" => wk = <<>>
  /\ v # "mem" => mem = <<>>

IdleDriver == IdleDriverExcept("none")

laterVars == <<exchangeVars, prunedVars, commVars, driverVars>>
IdleLater == IdleExchange /\ IdlePruned /\ IdleComm /\ IdleDriver

InitBuild == InitBuildVars /\ IdleGhost /\ IdleExport /\ IdleNeib /\ IdleLater
InitGhost == IdleBuild /\ InitGhostVars /\ IdleExport /\ IdleNeib /\ IdleLater
InitExport == IdleBuild /\ IdleGhost /\ InitExportVars /\ IdleNeib /\ IdleLater
InitNeib == IdleBuild /\ IdleExport /\ InitNeibVars /\ IdleLater

NextGhost ==
  \/ GhostCall /\ UNCHANGED <<buildVars, exportVars, neibVars, laterVars>>
  \/ \E k \in 1..3 : PassBegin(k) /\ UNCHANGED <<buildVars, exportVars, neibVars, laterVars>>
  \/ \E k \in 1..3 : WalkCell(k) /\ UNCHANGED <<buildVars, exportVars, neibVars, laterVars>>
  \/ \E k \in 1..3 : LeafParticle(k) /\ UNCHANGED <<buildVars, exportVars, neibVars, laterVars>>
  \/ \E k \in 1..3 : WalkEnd(k) /\ UNCHANGED <<buildVars, exportVars, neibVars, laterVars>>
  \/ \E k \in 2..3 : DirectSumGhost(k) /\ UNCHANGED <<buildVars, exportVars, neibVars, laterVars>>
  \/ \E k \in 2..3 : DirectSumEnd(k) /\ UNCHANGED <<buildVars, exportVars, neibVars, laterVars>>
  \/ CapacityCheck /\ UNCHANGED <<buildVars, exportVars, neibVars, laterVars>>

SpecGhost == InitGhost /\ [][NextGhost]_vars

NextBuild ==
  \/ BuildTree /\ UNCHANGED <<ghostVars, exportVars, neibVars, laterVars>>
  \/ BuildGhostTree /\ UNCHANGED <<ghostVars, exportVars, neibVars, laterVars>>
  \/ BuildMpiGhostTree /\ UNCHANGED <<ghostVars, exportVars, neibVars, laterVars>>
  \/ NextStep /\ UNCHANGED <<ghostVars, exportVars, neibVars, laterVars>>

SpecBuild == InitBuild /\ [][NextBuild]_vars

NextExport ==
  \/ UpdateGravityExportList /\ UNCHANGED <<buildVars, ghostVars, neibVars, laterVars>>
  \/ UpdateHydroExportList /\ UNCHANGED <<buildVars, ghostVars, neibVars, laterVars>>
  \/ \E t \in Threads : LoopNext(t) /\ UNCHANGED <<buildVars, ghostVars, neibVars, laterVars>>
  \/ \E t \in Threads : PeerLoop(t) /\ UNCHANGED <<buildVars, ghostVars, neibVars, laterVars>>
  \/ \E t \in Threads : ExportAppend(t) /\ UNCHANGED <<buildVars, ghostVars, neibVars, laterVars>>
  \/ \E t \in Threads : CellForces(t) /\ UNCHANGED <<buildVars, ghostVars, neibVars, laterVars>>
  \/ \E t \in Threads : LoopEnd(t) /\ UNCHANGED <<buildVars, ghostVars, neibVars, laterVars>>
  \/ ExportReturn /\ UNCHANGED <<buildVars, ghostVars, neibVars, laterVars>>
  \/ GetExportInfo /\ UNCHANGED <<buildVars, ghostVars, neibVars, laterVars>>

SpecExport == InitExport /\ [][NextExport]_vars

NextNeib ==
  \/ GatherCall /\ UNCHANGED <<buildVars, exportVars, laterVars>>
  \/ GatherDone /\ UNCHANGED <<buildVars, exportVars, laterVars>>

SpecNeib == InitNeib /\ [][NextNeib]_vars

\* A step regenerates the ghosts and the export lists: either routine runs
\* from the state the earlier step left.
InitRegen == InitGhost \/ InitExport

NextRegen == NextGhost \/ NextExport

SpecRegen == InitRegen /\ [][NextRegen]_vars

InitExchange ==
  /\ IdleBuild /\ IdleGhost /\ IdleExport /\ IdleNeib /\ InitExchangeVars
  /\ IdlePruned /\ IdleComm /\ IdleDriver

NextExchange ==
  \/ \E p \in Procs : ExchangePack(p)
                         /\ UNCHANGED <<buildVars, ghostVars, exportVars,
                                         neibVars, prunedVars, commVars, driverVars>>
  \/ \E p \in Procs : UnpackExported(p)
                         /\ UNCHANGED <<buildVars, ghostVars, exportVars,
                                         neibVars, prunedVars, commVars, driverVars>>
  \/ \E p \in Procs : EvaluateImported(p)
                         /\ UNCHANGED <<buildVars, ghostVars, exportVars,
                                         neibVars, prunedVars, commVars, driverVars>>
  \/ \E p \in Procs : GetBackExportInfo(p)
                         /\ UNCHANGED <<buildVars, ghostVars, exportVars,
                                         neibVars, prunedVars, commVars, driverVars>>
  \/ \E p \in Procs : UnpackReturnedExportInfo(p)
                         /\ UNCHANGED <<buildVars, ghostVars, exportVars,
                                         neibVars, prunedVars, commVars, driverVars>>

SpecExchange == InitExchange /\ [][NextExchange]_vars

InitPruned ==
  /\ IdleBuild /\ IdleGhost /\ IdleExport /\ IdleNeib /\ IdleExchange
  /\ InitPrunedVars /\ IdleComm /\ IdleDriver

NextPruned ==
  \/ LocalTreeBuilt /\ UNCHANGED <<buildVars, ghostVars, exportVars,
                                    neibVars, exchangeVars, commVars, driverVars>>
  \/ BuildPrunedTree /\ UNCHANGED <<buildVars, ghostVars, exportVars,
                                     neibVars, exchangeVars, commVars, driverVars>>
  \/ PrunedNextStep /\ UNCHANGED <<buildVars, ghostVars, exportVars,
                                    neibVars, exchangeVars, commVars, driverVars>>

SpecPruned == InitPruned /\ [][NextPruned]_vars

InitComm ==
  /\ IdleBuild /\ IdleGhost /\ IdleExport /\ IdleNeib /\ IdleExchange
  /\ IdlePruned /\ InitCommVars /\ IdleDriver

\* The steps that do not need MPI to buffer a message.
NextCommBlocking ==
  \/ \E r \in Procs : TurnBegin(r)
                         /\ UNCHANGED <<buildVars, ghostVars, exportVars,
                                         neibVars, exchangeVars, prunedVars, driverVars>>
  \/ \E r \in Procs : SendMatched(r)
                         /\ UNCHANGED <<buildVars, ghostVars, exportVars,
                                         neibVars, exchangeVars, prunedVars, driverVars>>
  \/ \E r \in Procs : RecvBuffered(r)
                         /\ UNCHANGED <<buildVars, ghostVars, exportVars,
                                         neibVars, exchangeVars, prunedVars, driverVars>>
  \/ \E r \in Procs : Barrier(r)
                         /\ UNCHANGED <<buildVars, ghostVars, exportVars,
                                         neibVars, exchangeVars, prunedVars, driverVars>>

NextComm ==
  \/ NextCommBlocking
  \/ \E r \in Procs : SendBuffered(r)
                         /\ UNCHANGED <<buildVars, ghostVars, exportVars,
                                         neibVars, exchangeVars, prunedVars, driverVars>>

SpecComm == InitComm /\ [][NextComm]_vars

\* Every process runs, and MPI completes a send whose receive is posted and
\* a receive whose message has arrived; it need not buffer a message.
SpecCommFair == SpecComm /\ WF_vars(NextCommBlocking)

\* The routines of the tree at rest, for the specifications of the
\* simulation and of the single routines below.
treeVars == <<buildVars, ghostVars, exportVars, neibVars, exchangeVars,
              prunedVars, commVars>>
IdleTree ==
  /\ IdleBuild /\ IdleGhost /\ IdleExport /\ IdleNeib /\ IdleExchange
  /\ IdlePruned /\ IdleComm

InitSim == IdleTree /\ InitSimVars /\ IdleDriverExcept("sim")

\* The steps of Run itself.
NextSimRun ==
  \/ RunLoop /\ UNCHANGED <<treeVars, prm, pp, mainp, chk, lb, wk, mem>>
  \/ MainLoop /\ UNCHANGED <<treeVars, prm, pp, mainp, chk, lb, wk, mem>>
  \/ Output /\ UNCHANGED <<treeVars, prm, pp, mainp, chk, lb, wk, mem>>

NextSim ==
  \/ Setup /\ UNCHANGED <<treeVars, prm, pp, mainp, chk, lb, wk, mem>>
  \/ Run /\ UNCHANGED <<treeVars, prm, pp, mainp, chk, lb, wk, mem>>
  \/ NextSimRun

SpecSim == InitSim /\ [][NextSim]_vars

\* Run, once called, keeps taking its steps.
SpecSimFair == SpecSim /\ WF_vars(NextSimRun)

InitParams == IdleTree /\ InitParamVars /\ IdleDriverExcept("prm")

NextParams ==
  \/ ParseLineCall /\ UNCHANGED <<treeVars, sim, pp, mainp, chk, lb, wk, mem>>
  \/ SetParameterCall /\ UNCHANGED <<treeVars, sim, pp, mainp, chk, lb, wk, mem>>

SpecParams == InitParams /\ [][NextParams]_vars

InitProcess == IdleTree /\ InitProcessVars /\ IdleDriverExcept("pp")

NextProcess ==
  \/ ProcessParameters /\ UNCHANGED <<treeVars, sim, prm, mainp, chk, lb, wk, mem>>
  \/ GenerateIC /\ UNCHANGED <<treeVars, sim, prm, mainp, chk, lb, wk, mem>>

SpecProcess == InitProcess /\ [][NextProcess]_vars

InitMain == IdleTree /\ InitMainVars /\ IdleDriverExcept("mainp")

\* The steps of main that the code takes by itself.
NextMainSteps ==
  \/ \E p \in Procs : MPIInit(p) /\ UNCHANGED <<treeVars, sim, prm, pp, chk, lb, wk, mem>>
  \/ \E p \in Procs : SetMpi(p) /\ UNCHANGED <<treeVars, sim, prm, pp, chk, lb, wk, mem>>
  \/ \E p \in Procs :
       QueryThread(p) /\ UNCHANGED <<treeVars, sim, prm, pp, chk, lb, wk, mem>>
  \/ \E p \in Procs :
       ParseArguments(p) /\ UNCHANGED <<treeVars, sim, prm, pp, chk, lb, wk, mem>>
  \/ \E p \in Procs :
       CreateCont(p) /\ UNCHANGED <<treeVars, sim, prm, pp, chk, lb, wk, mem>>
  \/ \E p \in Procs :
       ReadParamsFile(p) /\ UNCHANGED <<treeVars, sim, prm, pp, chk, lb, wk, mem>>
  \/ \E p \in Procs :
       RunReturns(p) /\ UNCHANGED <<treeVars, sim, prm, pp, chk, lb, wk, mem>>

NextMain ==
  \/ NextMainSteps
  \/ \E p \in Procs : RunFails(p) /\ UNCHANGED <<treeVars, sim, prm, pp, chk, lb, wk, mem>>

SpecMain == InitMain /\ [][NextMain]_vars

InitCheck == IdleTree /\ InitCheckVars /\ IdleDriverExcept("chk")

NextCheck ==
  CheckValidNeighbourList /\ UNCHANGED <<treeVars, sim, prm, pp, mainp, lb, wk, mem>>

SpecCheck == InitCheck /\ [][NextCheck]_vars

InitBalance == IdleTree /\ InitBalanceVars /\ IdleDriverExcept("lb")

NextBalance ==
  \/ EnterBalance /\ UNCHANGED <<treeVars, sim, prm, pp, mainp, chk, wk, mem>>
  \/ BalanceBody /\ UNCHANGED <<treeVars, sim, prm, pp, mainp, chk, wk, mem>>
  \/ BalanceWhile /\ UNCHANGED <<treeVars, sim, prm, pp, mainp, chk, wk, mem>>
  \/ BalanceReturn /\ UNCHANGED <<treeVars, sim, prm, pp, mainp, chk, wk, mem>>

SpecBalance == InitBalance /\ [][NextBalance]_vars

\* The function, once called, keeps running.
SpecBalanceFair == SpecBalance /\ WF_vars(NextBalance)

InitWalk == IdleTree /\ InitWalkVars /\ IdleDriverExcept("wk")

NextWalk ==
  \/ SearchMpiGhostParticles
       /\ UNCHANGED <<treeVars, sim, prm, pp, mainp, chk, lb, mem>>
  \/ SearchHydroExportParticles
       /\ UNCHANGED <<treeVars, sim, prm, pp, mainp, chk, lb, mem>>
  \/ FindMpiTransferParticles
       /\ UNCHANGED <<treeVars, sim, prm, pp, mainp, chk, lb, mem>>

SpecWalk == InitWalk /\ [][NextWalk]_vars

\* Each walk is a sequential loop of one thread: it goes on as long as it
\* has an iteration to run.
SpecWalkFair == SpecWalk /\ WF_vars(NextWalk)

InitMemory == IdleTree /\ InitMemVars /\ IdleDriverExcept("mem")

NextMemory ==
  \/ AllocateMemoryCall /\ UNCHANGED <<treeVars, sim, prm, pp, mainp, chk, lb, wk>>
  \/ DeallocateMemoryCall /\ UNCHANGED <<treeVars, sim, prm, pp, mainp, chk, lb, wk>>
  \/ Destructor /\ UNCHANGED <<treeVars, sim, prm, pp, mainp, chk, lb, wk>>

SpecMemory == InitMemory /\ [][NextMemory]_vars

\* Every process keeps running while it can take a step; a fatal error in
\* the run need not happen.
SpecMainFair == SpecMain /\ WF_vars(NextMainSteps)


\* What the step's arguments select, read off the three conditions of the
\* claim (not off the code's branch order).
ClaimedMode ==
  CASE bargs.n % bargs.ntreebuildstep = 0 \/ bargs.rebuild_tree -> "rebuild"
    [] ~(bargs.n % bargs.ntreebuildstep = 0 \/ bargs.rebuild_tree)
       /\ bargs.n % bargs.ntreestockstep = 0 -> "stock"
    [] OTHER -> "extrapolate"

\* C1: every call of BuildTree applies exactly one operation to the main
\* tree: a rebuild iff n mod ntreebuildstep = 0 or rebuild_tree, otherwise a
\* stock iff n mod ntreestockstep = 0, otherwise an extrapolation (so a
\* rebuild wins when both cadences fall on the step); BuildGhostTree and
\* BuildMpiGhostTree with the same arguments apply the same operation.
C1_ModeSelection ==
  /\ bpc # "BuildTree" => treeops["tree"] = <<ClaimedMode>>
  /\ bpc \in {"BuildMpiGhostTree", "StepDone"} =>
       treeops["ghosttree"] = treeops["tree"]
  /\ bpc = "StepDone" => treeops["mpighosttree"] = treeops["tree"]

\* C1 witness: a step on which both cadences fall and no rebuild is forced
\* by the flag has run all three routines, and another step has stocked.
C1_Witness ==
  /\ bpc = "StepDone"
  /\ bargs.n > 0
  /\ ~bargs.rebuild_tree
  /\ bargs.n % bargs.ntreebuildstep = 0
  /\ bargs.n % bargs.ntreestockstep = 0
  /\ bargs.ntreebuildstep # bargs.ntreestockstep
  /\ treeops["tree"] = <<"rebuild">>
  /\ treeops["mpighosttree"] = <<"rebuild">>


\* The true neighbours of the query by the brute-force scan of all
\* particles.
TrueNeighbours ==
  {i \in 0 .. (Len(gpart) - 1) :
     DistSqd(gpart[i + 1].r, nq.rp) <= nq.rsearch * nq.rsearch}

\* C2: a gather-neighbour query that returns lists exactly the particles
\* within rsearch of rp (every neighbour of the brute-force scan, nothing
\* else), no index twice, and returns the number of listed indices; it ends
\* with the fatal condition only if the neighbours outnumber the capacity.
C2_GatherNeighboursExact ==
  /\ npc = "returned" =>
       /\ {nres.neiblist[n] : n \in 1..Len(nres.neiblist)} = TrueNeighbours
       /\ \A a, b \in 1..Len(nres.neiblist) :
            a # b => nres.neiblist[a] # nres.neiblist[b]
       /\ nres.Nneib = Len(nres.neiblist)
       /\ nres.Nneib = Cardinality(TrueNeighbours)
  /\ npc = "fatal" => Cardinality(TrueNeighbours) > nq.Nneibmax

\* C2 witness: a query returned one neighbour and rejected, by the exact
\* distance, a particle lying inside the widened box of the search.
C2_Witness ==
  /\ npc = "returned"
  /\ nres.Nneib = 1
  /\ \E i \in 0 .. (Len(gpart) - 1) :
       /\ i \notin TrueNeighbours
       /\ \A k \in Dims :
            gpart[i + 1].r[k] - nq.rsearch <= nq.rp[k]
            /\ nq.rp[k] <= gpart[i + 1].r[k] + nq.rsearch


\* The number of checks of particle i on axis k in the call so far.
CheckCount(k, i) == Cardinality({j \in 1..Len(glog) : glog[j] = <<k, i>>})

CallOver == gpc.at \in {"returned", "raised"}

\* The particles of leaf cell c, read off the linked list bounds.
LeafParticles(c) ==
  IF gtree.celldata[c].N = 0 THEN {}
  ELSE gtree.celldata[c].ilast .. gtree.celldata[c].ifirst

\* The cells whose subtree holds cell c (c itself included).
Ancestors(c) ==
  {a \in 0 .. (gtree.Ncell - 1) : a <= c /\ c < gtree.celldata[a].cnext}

\* C3 as claimed: after a call, for each axis whose pass ran, every particle
\* of every non-empty leaf whose own box passes the opening test has had the
\* ghost check of that axis exactly once, whatever its ancestors' tests say.
C3_StraddlingLeafChecked ==
  CallOver =>
    \A k \in 1..3 :
      PassEnabled(gcfg.bnd, k) /\ ~AllOpen(gcfg.bnd) =>
        \A c \in 0 .. (gtree.Ncell - 1) :
          ( /\ gtree.celldata[c].level = gtree.ltot
            /\ gtree.celldata[c].N > 0
            /\ CellOverlapsEdge(gtree.celldata[c], k, gcfg.tghost) )
          => \A i \in LeafParticles(c) : CheckCount(k, i) = 1

\* What the walk does guarantee: a tree particle is checked on an axis, and
\* then exactly once, iff the test passes for its leaf and for every
\* ancestor of the leaf.
C3_WalkChecksOpenedLeaves ==
  CallOver =>
    \A k \in 1..3 :
      PassEnabled(gcfg.bnd, k) /\ ~AllOpen(gcfg.bnd) =>
        \A c \in 0 .. (gtree.Ncell - 1) :
          gtree.celldata[c].level = gtree.ltot =>
            \A i \in LeafParticles(c) :
              CheckCount(k, i) =
                IF \A a \in Ancestors(c) :
                     CellOverlapsEdge(gtree.celldata[a], k, gcfg.tghost)
                  THEN 1 ELSE 0


\* The axis of the j-th check of the call.
LogAxis(j) == glog[j][1]

\* The pass of axis k is over.
PassOver(k) == gafter[k] # -1

\* The ghosts that exist when the pass of axis k starts: those of the
\* earlier passes.
GhostsBefore(k) ==
  IF k = 1 THEN {}
  ELSE gsph.Nsph .. (gsph.Nsph + gafter[k - 1] - 1)

\* C4: the checks of a call come in the order x, y, z; when the pass of y
\* (of z) is over and was enabled, every ghost created by the earlier passes
\* has had the y (the z) check exactly once, and no ghost created during a
\* pass is checked in that same pass (the x pass checks no ghost at all);
\* after each enabled pass Ntot = Nsph + Nghost.
C4_AxisOrderAndGhostRescan ==
  /\ \A a, b \in 1..Len(glog) : a < b => LogAxis(a) <= LogAxis(b)
  /\ \A k \in 1..3 :
       PassOver(k) /\ PassEnabled(gcfg.bnd, k) =>
         /\ \A i \in GhostsBefore(k) : CheckCount(k, i) = 1
         /\ \A i \in gsph.Nsph .. Len(gpart) :
              i \notin GhostsBefore(k) => CheckCount(k, i) = 0
  /\ \A k \in 1..3 :
       gpc = At("begin", k + 1) /\ PassEnabled(gcfg.bnd, k) =>
         gsph.Ntot = gsph.Nsph + gsph.Nghost
  /\ gpc.at = "check" => gsph.Ntot = gsph.Nsph + gsph.Nghost

\* C4 witness: the z pass is over and has checked a y-image of an x-ghost (a
\* ghost whose x and y both differ from its origin's).
C4_Witness ==
  /\ PassOver(3)
  /\ \E i \in gsph.Nsph .. (gsph.Nsph + gafter[2] - 1) :
       /\ i >= gsph.Nsph + gafter[1]
       /\ i + 1 <= Len(gpart)
       /\ gpart[i + 1].r[1] # gpart[gpart[i + 1].iorig + 1].r[1]
       /\ gpart[i + 1].r[2] # gpart[gpart[i + 1].iorig + 1].r[2]
       /\ CheckCount(3, i) = 1

\* C5: the call ends with the fatal error iff the ghosts exceed the spare
\* capacity (Nsph + Nghost > Nsphmax); on a normal return Ntot = Nsph +
\* Nghost <= Nsphmax, Nghost <= Nghostmax = Nsphmax - Nsph and
\* NPeriodicGhost = Nghost.
C5_GhostCapacity ==
  /\ gpc.at = "raised" => gsph.Nsph + gsph.Nghost > gsph.Nsphmax
  /\ gpc.at = "returned" =>
       /\ gsph.Nsph + gsph.Nghost <= gsph.Nsphmax
       /\ gsph.Ntot = gsph.Nsph + gsph.Nghost
       /\ gsph.Nghostmax = gsph.Nsphmax - gsph.Nsph
       /\ gsph.Nghost <= gsph.Nghostmax
       /\ gsph.NPeriodicGhost = gsph.Nghost

\* C5 witness: a call that ran out of room for its ghosts.
C5_Witness ==
  /\ gpc.at = "raised"
  /\ gsph.Nghost > SpareCap


\* The ghosts of the particle array the counters count: indices
\* Nsph .. Nsph+Nghost-1.
CountedGhosts == gsph.Nsph .. (gsph.Nsph + gsph.Nghost - 1)

\* The ghost search is past its reset, the export pass past its reset.
GhostCallBegun == gpc.at \notin {"idle", "start"}
ExportCallBegun == epc \notin {"idle", "start"}

\* The cells of the step that peer j's pruned tree reports as too close.
FlaggedFor(j) == {c \in 1..Len(ecfg.nact) : j \in ecfg.close[c]}

\* C6: ghosts and export lists are regenerated at every call. Once
\* SearchBoundaryGhostParticles has begun, Nmpighost is 0 and every ghost
\* the counters count was created by this call (none is left from the
\* earlier step), and Nghost is the number of ghosts this call created; with
\* all six faces open it returns with Ntot = Nsph, Nghost = 0 and no check
\* made. Once an export routine has begun, Npartexport is 0 and every cell
\* among the first Ncellexport[j] of cellexportlist[j] was flagged for j by
\* this call (none is left from the earlier step).
C6_RegeneratedEachCall ==
  /\ GhostCallBegun =>
       /\ gsph.Nmpighost = 0
       /\ \A i \in CountedGhosts :
            i + 1 <= Len(gpart) /\ gpart[i + 1].iorig # -1
       /\ gsph.Nghost =
            Cardinality({i \in 1..Len(gpart) :
                           i > gsph.Nsph /\ gpart[i].iorig # -1})
  /\ gpc.at = "returned" /\ AllOpen(gcfg.bnd) =>
       gsph.Ntot = gsph.Nsph /\ gsph.Nghost = 0 /\ glog = <<>>
  /\ ExportCallBegun =>
       \A j \in Procs :
         /\ Npartexport[j] = 0
         /\ \A n \in 1..Ncellexport[j] :
              /\ cellexportlist[j][n] \in FlaggedFor(j)
              /\ eproc[cellexportlist[j][n]] # <<>>

\* C6 witness: a call with a closed face has returned after checking
\* particles; it created no ghost, and the ghost the earlier step left in the
\* array is no longer counted.
C6_Witness ==
  /\ gpc.at = "returned"
  /\ ~AllOpen(gcfg.bnd)
  /\ glog # <<>>
  /\ gsph.Nghost = 0
  /\ gsph.Ntot = gsph.Nsph
  /\ Len(gpart) > gsph.Nsph
  /\ gpart[gsph.Nsph + 1].iorig = -1

\* The parallel loop of the export routine is over.
ExportJoined == epc \in {"joined", "packed", "assert_failed"}

\* C7 as claimed: after the parallel loop, for every process j, every cell
\* flagged for j is exactly once among the first Ncellexport[j] entries of
\* cellexportlist[j], no other cell is, nothing is listed for the local rank
\* and Ncellexport[j] is the number of cells flagged for j.
C7_ExportListComplete ==
  ExportJoined =>
    \A j \in Procs :
      /\ Ncellexport[j] = Cardinality(FlaggedFor(j))
      /\ \A c \in FlaggedFor(j) :
           Cardinality({n \in 1..Ncellexport[j] : cellexportlist[j][n] = c}) = 1
      /\ \A n \in 1..Ncellexport[j] : cellexportlist[j][n] \in FlaggedFor(j)
      /\ j = rank => Ncellexport[j] = 0

\* One worker processing the cells cc.. in order, as the serial build does:
\* the peer loop of a cell from peer j on ...
RECURSIVE SerialPeers(_, _, _, _)
SerialPeers(cell, j, Ngravcell, gravcelllist) ==
  IF j >= Nmpi THEN [Ngravcell |-> Ngravcell, gravcelllist |-> gravcelllist]
  ELSE IF j = rank THEN SerialPeers(cell, j + 1, Ngravcell, gravcelllist)
  ELSE LET res == ComputeDistantGravityInteractionList(ecfg, cell, j,
                                                       Ngravcell, gravcelllist)
       IN IF res.count = -1
            THEN SerialPeers(cell, j + 1, Ngravcell, gravcelllist)
            ELSE SerialPeers(cell, j + 1, res.count, res.list)

\* ... and the cell loop from iteration cc on, on the particle fields data.
RECURSIVE SerialCells(_, _, _, _)
SerialCells(cc, Ngravcell, gravcelllist, data) ==
  IF cc >= Len(ecfg.nact) THEN data
  ELSE LET cell == ComputeActiveCellList(ecfg)[cc + 1]
           al == ComputeActiveParticleList(ecfg, cell)
           ids == {al[n] : n \in 1..Len(al)}
           w == SerialPeers(cell, 0, Ngravcell, gravcelllist)
           terms == ComputeCellForces(w.Ngravcell, w.gravcelllist)
       IN SerialCells(cc + 1, w.Ngravcell, w.gravcelllist,
            [i \in DOMAIN data |->
               IF i \in ids
                 THEN WriteBack(AddForces([data[i] EXCEPT !.gpot = <<"self">>],
                                          terms))
                 ELSE data[i]])

SerialFields(Ngravcell) ==
  SerialCells(0, Ngravcell, <<>>,
              [i \in 0 .. (Nparticles(ecfg) - 1) |-> ParticleBefore])

\* C8 as claimed: every active cell is taken by exactly one worker, a
\* worker's scratch buffers hold the particles of its own cell only, no
\* particle's fields are written by two workers, and the particle fields
\* after the gravity pass do not depend on the interleaving: they are those
\* of one worker processing all the cells in order.
C8_InterleavingIndependent ==
  /\ ExportCallBegun =>
       /\ \A c \in 1..Len(ecfg.nact) : Len(eproc[c]) <= 1
       /\ \A i \in DOMAIN ewriter : Len(ewriter[i]) <= 1
       /\ \A t \in Threads :
            ert = "gravity" /\ eth[t].pc \in {"peer", "append"} =>
              eth[t].activelist =
                ComputeActiveParticleList(ecfg,
                  ComputeActiveCellList(ecfg)[eth[t].cc + 1])
  /\ ExportJoined =>
       /\ \A c \in 1..Len(ecfg.nact) : Len(eproc[c]) = 1
       /\ ert = "gravity" =>
            \E g \in Unwritten : sphdata = SerialFields(g)

\* The kinds of the records of the last message, in the order of their
\* offsets.
MessageKinds == [n \in 1..Len(epack.writes) |-> epack.writes[n].kind]

\* C9 as claimed: a message of GetExportInfo is the header (particle count,
\* cell count), then all the cell records, then all the particle records: no
\* particle record lies before a cell record.
C9_CellsThenParticles ==
  epack.Nproc # -1 =>
    /\ Len(MessageKinds) >= 2
    /\ MessageKinds[1] = "Nactive"
    /\ MessageKinds[2] = "cactive"
    /\ \A n \in 1..Len(epack.writes) - 1 :
         epack.writes[n + 1].off = epack.writes[n].off + epack.writes[n].len
    /\ \A a, b \in 3..Len(MessageKinds) :
         a < b => ~(MessageKinds[a] = "part" /\ MessageKinds[b] = "cell")

\* C10 as claimed: for the export lists of the step, the asserts of
\* GetExportInfo hold: the particle records packed are as many as the header
\* says (Npartexport[Nproc]), the final offset is the size of the resized
\* buffer, and no record is written past the buffer.
C10_PackAssertsHold ==
  /\ epc # "assert_failed"
  /\ epack.Nproc # -1 =>
       /\ epack.exported_particles = epack.Nactive
       /\ epack.offset = send_buffer.size
       /\ \A n \in 1..Len(epack.writes) :
            epack.writes[n].off + epack.writes[n].len <= send_buffer.size


\* f[0] \o ... \o f[n-1]
RECURSIVE ConcatBefore(_, _)
ConcatBefore(f, n) == IF n <= 0 THEN <<>> ELSE ConcatBefore(f, n - 1) \o f[n - 1]

\* The cells process s exports to process d, and their active particles,
\* in the order of the export list.
ExportedCells(s, d) ==
  [k \in 1..xcfg.Ncellexport[s][d] |-> <<s, k>>]
ExportedParticles(s, d) ==
  LET ids == ConcatBefore(
               [c \in 0 .. (xcfg.Ncellexport[s][d] - 1) |->
                  ComputeActiveParticleList(xcfg, c + 1)],
               xcfg.Ncellexport[s][d])
  IN [k \in 1..Len(ids) |-> LocalParticle(xcfg, s, ids[k])]

\* Process p has run UnpackExported to its end and not yet given the
\* imported particles back.
Imported(p) == xpc[p] \in {"evaluate", "back"} /\ xcfg.nact # <<>>

ImportedCells(p) ==
  SubSeq(xtree[p].celldata, xtree[p].Ncell + 1, xtree[p].Ncelltot)
ImportedParticles(p) ==
  [k \in 1..xsph[p].NImportedParticles |->
     PartAt(xsph[p].sphdata, xlog[p].Ntot + k - 1, 0)]

\* C11: what UnpackExported imports is what the peers packed: the cells
\* and the active particles of the peers' export lists, in the order of
\* the senders and of their lists; the range [ifirst, ilast] of every
\* imported cell holds exactly the particles of that cell; and the read
\* offset ends at the sum of the byte counts of the messages.
C11_RoundTrip ==
  \A p \in Procs : Imported(p) =>
    /\ [k \in 1..Len(ImportedCells(p)) |->
          <<ImportedCells(p)[k].src, ImportedCells(p)[k].id>>]
         = ConcatBefore([s \in Procs |->
                          IF s = p THEN <<>> ELSE ExportedCells(s, p)], Nmpi)
    /\ ImportedParticles(p)
         = ConcatBefore([s \in Procs |->
                          IF s = p THEN <<>> ELSE ExportedParticles(s, p)], Nmpi)
    /\ \A k \in 1..Len(ImportedCells(p)) :
         LET cell == ImportedCells(p)[k]
             al == ComputeActiveParticleList(xcfg, cell.id)
         IN /\ cell.ilast - cell.ifirst + 1 = Len(al)
            /\ \A n \in 1..Len(al) :
                 PartAt(xsph[p].sphdata, cell.ifirst + n - 1, 0)
                   = LocalParticle(xcfg, cell.src, al[n])
    /\ xlog[p].offset = xlog[p].nbytes


\* Process p has left UnpackExported, by its end or by a fatal error, and
\* has not yet run UnpackReturnedExportInfo.
Unpacked(p) == Imported(p) \/ (xpc[p] = "raised" /\ xcfg.nact # <<>>)

\* The counts UnpackExported read from the headers of the messages.
ReceivedParticles(p) ==
  SumSeq([k \in 1..Len(xlog[p].header) |-> xlog[p].header[k].particles])
ReceivedCells(p) ==
  SumSeq([k \in 1..Len(xlog[p].header) |-> xlog[p].header[k].cells])

Refused(p) == xlog[p].header[Len(xlog[p].header)]

\* C13: UnpackExported raises the fatal error iff for the message of some
\* peer sph->Ntot + the received particles > Nsphmax or tree->Ncelltot +
\* the received cells > Ncellmax, and then it has written no particle and
\* no cell of that message; it never writes a particle at an index >=
\* Nsphmax or a cell at an index >= Ncellmax, and the capacities stay as
\* they were.
C13_CapacityRespected ==
  \A p \in Procs : Unpacked(p) =>
    /\ xlog[p].raised # "no" <=>
         \E k \in 1..Len(xlog[p].header) :
           LET h == xlog[p].header[k]
           IN \/ h.Ntot + h.particles > xsph[p].Nsphmax
              \/ h.Ncelltot + h.cells > xtree[p].Ncellmax
    /\ xlog[p].raised # "no" =>
         \A w \in xlog[p].wpart \cup xlog[p].wcell : w.Nproc # Refused(p).Nproc
    /\ \A w \in xlog[p].wpart : w.i < xsph[p].Nsphmax
    /\ \A w \in xlog[p].wcell : w.i < xtree[p].Ncellmax
    /\ xsph[p].Nsphmax = InitialSph(xcfg, p).Nsphmax
    /\ xtree[p].Ncellmax = InitialTree(xcfg, p).Ncellmax


\* Process p has given back what it imported; process s has run
\* UnpackReturnedExportInfo to its end.
Returned(p) == xpc[p] \in {"reconcile", "done"} /\ xcfg.nact # <<>>
Reconciled(s) == xpc[s] = "done" /\ xcfg.nact # <<>>

\* The origin id of the particle with local index j of process s.
OriginId(s, j) == InitialSph(xcfg, s).sphdata[j + 1].iorig

\* C14: the i-th record of the block peer p returns to process s is the
\* result for the i-th index of ids_sent_particles[p] of s, also when p
\* imported from several processes; so every record that
\* UnpackReturnedExportInfo adds has the origin id of the particle it is
\* added to.
C14_ReturnOrder ==
  \A s \in Procs :
    /\ \A p \in Procs \ {s} : Returned(p) =>
         LET ids == xmpi[s].ids_sent_particles[p]
             block == xmpi[p].back[s]
         IN /\ Len(block) = Len(ids)
            /\ \A i \in 1..Len(ids) :
                 block[i].data.iorig = OriginId(s, ids[i])
    /\ Reconciled(s) =>
         \A k \in 1..Len(xlog[s].applied) : xlog[s].applied[k].same

\* C15: the block GetBackExportInfo returns holds, for each imported
\* particle, the result fields only and not the rest of the particle
\* record: a record of it has no position and is smaller than a particle,
\* and so is what the process expects back for each particle it sent.
C15_ReturnsResultsOnly ==
  \A p \in Procs : Returned(p) =>
    \A q \in Procs :
      /\ \A k \in 1..Len(xmpi[p].back[q]) :
           /\ "pos" \notin DOMAIN xmpi[p].back[q][k].data
           /\ xmpi[p].back[q][k].len < SizeofPart
      /\ xmpi[p].ids_sent_particles[q] # <<>> =>
           xmpi[p].Nbytes_to_each_proc[q]
             < Len(xmpi[p].ids_sent_particles[q]) * SizeofPart

\* The records UnpackReturnedExportInfo of process s added to particle j.
AddedTo(s, j) ==
  {k \in 1..Len(xlog[s].applied) : xlog[s].applied[k].j = j}

\* C16: after UnpackReturnedExportInfo every particle sent to peer p has
\* had exactly one record added that p returned for it, for every peer p
\* and none for the process itself; a, agrav, gpot, gpe, dudt and div_v
\* are the sums and levelneib is the maximum of the local value and the
\* added records; no record with another origin id is added.
C16_OneRecordPerPeer ==
  \A s \in Procs : Reconciled(s) =>
    /\ \A p \in Procs \ {s} :
         \A i \in 1..Len(xmpi[s].ids_sent_particles[p]) :
           /\ Cardinality({k \in AddedTo(s, xmpi[s].ids_sent_particles[p][i]) :
                              xlog[s].applied[k].Nproc = p}) = 1
           /\ i <= Len(xmpi[p].back[s])
           /\ \E k \in AddedTo(s, xmpi[s].ids_sent_particles[p][i]) :
                 /\ xlog[s].applied[k].Nproc = p
                 /\ xlog[s].applied[k].received = xmpi[p].back[s][i].data
    /\ \A k \in 1..Len(xlog[s].applied) :
         xlog[s].applied[k].Nproc # s /\ xlog[s].applied[k].same
    /\ \A j \in 0 .. (xsph[s].Nsph - 1) :
         LET before == InitialSph(xcfg, s).sphdata[j + 1]
             now == xsph[s].sphdata[j + 1]
         IN /\ \A f \in SumFields :
                 now.res[f] = before.res[f]
                   + SumSeq([k \in 1..Len(xlog[s].applied) |->
                               IF k \in AddedTo(s, j)
                                 THEN xlog[s].applied[k].received.res[f]
                                 ELSE 0])
            /\ now.levelneib =
                 SetMax({before.levelneib}
                        \cup {xlog[s].applied[k].received.levelneib :
                                k \in AddedTo(s, j)})

\* The orders in which the peers' blocks can be taken.
PeerOrders ==
  {o \in [1..Nmpi -> Procs] : \A a, b \in 1..Nmpi : a # b => o[a] # o[b]}

\* The particles of process s as UnpackReturnedExportInfo found them.
BeforeReturn(s) ==
  [k \in 1..Len(xsph[s].sphdata) |->
     IF k <= Len(InitialSph(xcfg, s).sphdata)
       THEN InitialSph(xcfg, s).sphdata[k] ELSE xsph[s].sphdata[k]]

\* UnpackReturnedExportInfo of process s with the peers taken in the given
\* order and the reads of unwritten bytes giving g.
ReconcileIn(s, order, g, data) ==
  ReturnedPeers(xcfg.ndebug, ReturnedInformation(xmpi, s),
                ReturnDispls(xmpi[s]), xmpi[s], g, s, order,
                [sphdata |-> data, applied |-> <<>>, failed |-> FALSE])

\* The result of UnpackReturnedExportInfo is the same in whatever order
\* the peers' blocks are taken.
OrderIndependent ==
  \A s \in Procs : Reconciled(s) =>
    \A o \in PeerOrders :
      ReconcileIn(s, o, xlog[s].garbage, BeforeReturn(s)).sphdata
        = xsph[s].sphdata

\* C17: the result of UnpackReturnedExportInfo is the same in whatever
\* order the peers' blocks are taken, and it includes, for every particle,
\* the record that each peer it was sent to returned for it.
C17_OrderIndependentTotal ==
  /\ OrderIndependent
  /\ \A s \in Procs : Reconciled(s) =>
       \A p \in Procs \ {s} :
         \A i \in 1..Len(xmpi[s].ids_sent_particles[p]) :
           /\ i <= Len(xmpi[p].back[s])
           /\ xmpi[p].back[s][i].data.iorig
                = OriginId(s, xmpi[s].ids_sent_particles[p][i])
           /\ \E k \in 1..Len(xlog[s].applied) :
                /\ xlog[s].applied[k].Nproc = p
                /\ xlog[s].applied[k].i = i - 1
                /\ xlog[s].applied[k].received = xmpi[p].back[s][i].data

\* C18: once UnpackReturnedExportInfo has run, ids_sent_particles[p] is
\* empty for every p, so that UnpackReturnedExportInfo run once more adds
\* nothing.
C18_BookkeepingDiscarded ==
  \A s \in Procs : Reconciled(s) =>
    /\ \A p \in Procs : xmpi[s].ids_sent_particles[p] = <<>>
    /\ \A g \in [Procs -> Unwritten] :
         ReconcileIn(s, PeerOrder, g, xsph[s].sphdata).applied = <<>>


\* The cells of the local tree with level <= L, in storage order.
KeptCells(L) == SelectSeq(ptree.celldata, LAMBDA cell : cell.level <= L)

\* The data of a cell: all of it but the links.
CellData(cell) ==
  [level |-> cell.level, id |-> cell.id, owner |-> cell.owner,
   step |-> cell.step]

\* C19: after BuildPrunedTree(L, rank) every pruned tree has ltot = L and
\* Ncell = Ncellmax = 2^(L+1) - 1, and Nprunedcellmax is their sum; slot k
\* of prunedtree[rank] holds the data of the k-th cell of the local tree
\* with level <= L and its own links c1, c2, cnext as before; the level of
\* the copied cell is the level slot k has in the link structure of the
\* pruned tree; no cell of level > L is copied; the cells of the pruned
\* trees of the other processes are as before.
C19_PrunedCopy ==
  ppc = "pruned" =>
    LET L == pruning_level
        kept == KeptCells(L)
        slots == prunedtree[rank].celldata
    IN /\ \A i \in Procs :
            /\ prunedtree[i].ltot = L
            /\ prunedtree[i].Ncell = Pow2(L + 1) - 1
            /\ prunedtree[i].Ncellmax = Pow2(L + 1) - 1
       /\ Nprunedcellmax = Nmpi * (Pow2(L + 1) - 1)
       /\ Len(kept) <= Len(slots)
       /\ \A k \in 1..Min(Len(kept), Pow2(L + 1) - 1) :
            /\ CellData(slots[k]) = CellData(kept[k])
            /\ slots[k].c1 = TreeStructure(L)[k].c1
            /\ slots[k].c2 = TreeStructure(L)[k].c2
            /\ slots[k].cnext = TreeStructure(L)[k].cnext
            /\ slots[k].level = Levels(L, 0)[k]
       /\ \A k \in 1..Len(slots) : slots[k].level <= L
       /\ \A i \in Procs \ {rank} :
            prunedtree[i].celldata = PrunedTreeBefore(L, i).celldata


\* Every process has left the final barrier.
AllDone == \A r \in Procs : cst[r].pc = "done"

\* The k-th send or receive a process completes is the one its schedule
\* asks for: in each turn the lower rank sends its own pruned tree and
\* then receives that of the other, the higher rank receives and then
\* sends.
TurnOrder ==
  \A r \in Procs :
    \A k \in 1..Len(clog[r]) :
      LET inode == my_matches[r][(k + 1) \div 2]
          sends == (r < inode) <=> (k % 2 = 1)
      IN /\ clog[r][k].peer = inode
         /\ clog[r][k].op = IF sends THEN "send" ELSE "recv"
         /\ clog[r][k].cells = IF sends THEN OwnPrunedCells(r)
                                ELSE OwnPrunedCells(inode)

\* The pruned trees of a process that has left the barrier: that of each
\* process it met holds the cells that process sent, its own is as it was,
\* and no message to it is left over.
TreesDelivered ==
  \A r \in Procs : cst[r].pc = "done" =>
    /\ ctree[r][r] = OwnPrunedCells(r)
    /\ \A k \in 1..Len(my_matches[r]) :
         ctree[r][my_matches[r][k]] = OwnPrunedCells(my_matches[r][k])
    /\ \A q \in Procs : channel[<<q, r>>] = <<>>

\* Some process can take a step that needs no buffering by MPI, unless all
\* have finished.
NoDeadlock == AllDone \/ ENABLED NextCommBlocking

\* C20: CommunicatePrunedTrees with blocking sends and receives, for match
\* schedules in which two processes meet in the same round: in each turn
\* the lower rank sends its own pruned tree and then receives, the higher
\* rank receives and then sends; no state is a deadlock; every process
\* eventually leaves the final barrier, and then its pruned tree of each
\* process it met holds the cells that process sent and its own pruned
\* tree is unchanged.
C20_DeadlockFreeComplete ==
  /\ [](TurnOrder /\ TreesDelivered /\ NoDeadlock)
  /\ <>AllDone

\* All processes have met each other and have left the barrier.
C20_Witness ==
  /\ my_matches # <<>>
  /\ AllDone
  /\ \A r \in Procs : Len(clog[r]) = 2 * (Nmpi - 1)


\* BuildTree has just rebuilt the tree and called AllocateMemory.
JustRebuilt ==
  /\ bpc \in {"BuildGhostTree", "BuildMpiGhostTree", "StepDone"}
  /\ treeops["tree"] # <<>>
  /\ treeops["tree"][Len(treeops["tree"])] = "rebuild"

\* C22: after every rebuild in BuildTree and the AllocateMemory call that
\* follows it, the buffers of the threads are allocated and levelneibbuf
\* of each thread holds at least Ntotmax entries, however the particle
\* counts grew between the rebuilds.
C22_ScratchCoversNtotmax ==
  JustRebuilt => stree.allocated_buffer /\ stree.levelneibcap >= stree.Ntotmax


\* The force phase of Setup or of MainLoop has run to the end of its
\* 'Add accelerations' loop.
ForcesAdded == sim # <<>> /\ sim.pc \in {"ready", "Output"}

\* C21: after the force phase of a step the acceleration a of every real
\* particle is the sum of its hydrodynamic acceleration and of its
\* gravitational acceleration agrav, which were accumulated apart: at the
\* end of the 'Add accelerations' loop of Setup and of MainLoop, and after
\* the write-back of UpdateGravityExportList.
C21_TotalAcceleration ==
  /\ ForcesAdded =>
       \A i \in 1..Len(sim.sphdata) :
         sim.sphdata[i].a = sim.sphdata[i].hydro + sim.sphdata[i].agrav
  /\ \A terms \in {<<>>, <<"cell">>} :
       LET p == AddForces(ParticleBefore, terms)
       IN /\ WriteBack(p).a = ParticleBefore.a \o p.agrav
          /\ WriteBack(p).agrav = p.agrav


\* Run has been called and is in its loop or has returned from it.
InRun == sim # <<>> /\ sim.pc \in {"while", "MainLoop", "Output", "returned"}

\* The number of steps a call of Run may take.
StepsAllowed ==
  IF sim.Nadvance >= 0 THEN sim.Nadvance
  ELSE Max(sim.Nstepsmax - sim.entry.Nsteps, 0)

\* What holds at every point of a call of Run.
RunBounded ==
  InRun =>
    /\ sim.mainloops <= StepsAllowed
    /\ sim.Nsteps = sim.entry.Nsteps + sim.mainloops
    /\ sim.mainloops > 0 =>
         /\ sim.step.t < sim.tend
         /\ sim.step.Nsteps < sim.Ntarget
    /\ sim.outputs = IF sim.pc = "Output" THEN sim.mainloops - 1
                      ELSE sim.mainloops
    /\ sim.pc = "Output" =>
         /\ sim.n = sim.step.n + 1
         /\ sim.Nsteps = sim.step.Nsteps + 1
         /\ sim.t = sim.step.t + sim.timestep

\* C29: Run(Nadvance) terminates; it runs MainLoop at most Nadvance times
\* if Nadvance >= 0 and at most Nstepsmax - Nsteps times if Nadvance < 0
\* (not at all if that is negative), starts no step once t >= tend or
\* Nsteps has reached the target, calls Output once after each MainLoop,
\* and each MainLoop adds 1 to n and to Nsteps and the timestep to t.
C29_RunTerminates ==
  /\ []RunBounded
  /\ (InRun ~> (sim.pc = "returned"))

\* Run has returned after as many steps as Nadvance allows, the end time
\* not reached.
C29_Witness ==
  /\ InRun /\ sim.pc = "returned"
  /\ sim.Nadvance > 1 /\ sim.mainloops = sim.Nadvance
  /\ sim.t < sim.tend


\* Output has just returned.
OutputDone == sim # <<>> /\ sim.pc = "while" /\ sim.outputs > 0

\* C30: Output writes a snapshot iff t >= tsnapnext at the call, and at
\* most one; a snapshot adds 1 to Noutsnap and dt_snap to tsnapnext;
\* without a snapshot both are as before; the snapshots are numbered
\* 1, 2, ... and no file name is used twice.
C30_SnapshotCadence ==
  /\ OutputDone =>
       LET due == sim.out.t >= sim.out.tsnapnext
           written == Len(sim.files) - sim.out.files
       IN /\ written = IF due THEN 1 ELSE 0
          /\ sim.Noutsnap = sim.out.Noutsnap + written
          /\ sim.tsnapnext = sim.out.tsnapnext + written * sim.dt_snap
  /\ sim # <<>> =>
       /\ \A k \in 1..Len(sim.files) : sim.files[k] = SnapshotName(sim.params, k)
       /\ \A j, k \in 1..Len(sim.files) : j # k => sim.files[j] # sim.files[k]
       /\ sim.pc # "constructed" => sim.Noutsnap = Len(sim.files)

\* Output has written its second snapshot, and an earlier call wrote none.
C30_Witness ==
  /\ OutputDone
  /\ Len(sim.files) = 2 /\ sim.out.files = 1
  /\ sim.outputs > 2


\* The key and the value the call just made hands to SetParameter, if it
\* reaches it.
CalledKey ==
  IF prm'.call.op = "SetParameter" THEN prm'.call.key
  ELSE LET line == prm'.call.paramline
       IN trim2(Substr(line, Find(line, ":") + 1,
                       Find(line, "=") - Find(line, ":") - 1))

\* The line just parsed has no ':' or no '=', or its ':' is not before its
\* '='.
Malformed ==
  /\ prm'.call.op = "ParseLine"
  /\ LET line == prm'.call.paramline
     IN \/ \A k \in 1..Len(line) : line[k] # ":"
        \/ \A k \in 1..Len(line) : line[k] # "="
        \/ \E e \in 1..Len(line) :
             /\ line[e] = "="
             /\ \A c \in 1..e : line[c] # ":"

AllKeys(maps) ==
  DOMAIN maps.intparams \cup DOMAIN maps.floatparams
    \cup DOMAIN maps.stringparams

\* What a call of ParseLine or SetParameter does to the maps.
ParameterStep ==
  /\ Malformed => prm'.maps = prm.maps /\ ~prm'.warned
  /\ ~Malformed /\ CalledKey \notin AllKeys(prm.maps) =>
       prm'.maps = prm.maps /\ prm'.warned
  /\ DOMAIN prm'.maps.intparams = DOMAIN SetDefaultValues.intparams
  /\ DOMAIN prm'.maps.floatparams = DOMAIN SetDefaultValues.floatparams
  /\ DOMAIN prm'.maps.stringparams = DOMAIN SetDefaultValues.stringparams
  /\ \A m \in {"intparams", "floatparams", "stringparams"} :
       \A k \in DOMAIN prm.maps[m] :
         Malformed \/ k # CalledKey => prm'.maps[m][k] = prm.maps[m][k]

\* C23: SetParameter with a key that is in none of the three maps warns
\* and leaves the maps as they are; so after any calls of ParseLine and
\* SetParameter the keys are those of SetDefaultValues and a key that no
\* recognised line names keeps its value; a line without ':' or without
\* '=', or with its ':' not before its '=', changes nothing.
C23_UnknownKeyIgnored == [][ParameterStep]_vars

\* An unknown key has just been refused, after a known one was set.
C23_Witness ==
  /\ prm # <<>>
  /\ prm.warned
  /\ prm.call.op = "ParseLine"
  /\ prm.maps # SetDefaultValues


\* The options ProcessParameters reads whose value it does not know.
UnrecognisedByProcess(params) ==
  {o \in {"sph", "kernel", "neib_search", "sph_integration"} :
     params[o] \notin {"gradh", "m4", "bruteforce", "lfkdk"}}
    \cup (IF params.gas_eos \notin {"energy_eqn", "isothermal"}
            THEN {"gas_eos"} ELSE {})
    \cup (IF params.gas_eos = "energy_eqn" /\ params.energy_integration # "PEC"
            THEN {"energy_integration"} ELSE {})

UnrecognisedIC(params) ==
  params.ic \notin {"random_cube", "random_sphere", "shocktube", "khi"}

\* The object that stands for a known value of an option.
Component(value) ==
  CASE value = "gradh" -> "GradhSph"
    [] value = "m4" -> "M4Kernel"
    [] value = "bruteforce" -> "BruteForceSearch"
    [] value = "lfkdk" -> "SphLFKDK"
    [] value = "energy_eqn" -> "Adiabatic"
    [] value = "isothermal" -> "Isothermal"
    [] value = "PEC" -> "EnergyPEC"
    [] value = "random_cube" -> "RandomBox"
    [] value = "random_sphere" -> "RandomSphere"
    [] value = "shocktube" -> "ShockTube"
    [] value = "khi" -> "KHI"
    [] OTHER -> "none"

ProcessedOptions(params) ==
  {"sph", "kernel", "neib_search", "sph_integration", "gas_eos"}
    \cup (IF params.gas_eos = "energy_eqn" THEN {"energy_integration"} ELSE {})

\* C24: ProcessParameters raises a fatal error exactly when one of sph,
\* kernel, neib_search, sph_integration, gas_eos, or energy_integration
\* under gas_eos = energy_eqn, has a value it does not know, and GenerateIC
\* exactly when ic has; the error names such an option; without an error
\* the object of every chosen value has been made, and never another one.
C24_UnrecognisedIsFatal ==
  pp # <<>> /\ pp.pc # "Setup" =>
    /\ pp.raisedby = "ProcessParameters" <=>
         UnrecognisedByProcess(pp.params) # {}
    /\ pp.raisedby = "GenerateIC" <=>
         UnrecognisedByProcess(pp.params) = {} /\ pp.pc # "ProcessParameters"
           /\ UnrecognisedIC(pp.params)
    /\ pp.pc = "raised" <=> pp.raisedby # ""
    /\ pp.raisedby = "ProcessParameters" =>
         /\ pp.message[2] \in UnrecognisedByProcess(pp.params)
         /\ pp.message[3] = pp.params[pp.message[2]]
    /\ pp.raisedby = "GenerateIC" => pp.message[2] = "ic"
    /\ pp.pc \in {"ProcessParameters", "GenerateIC"} =>
         \A o \in ProcessedOptions(pp.params) :
           o \in DOMAIN pp.made /\ pp.made[o] = Component(pp.params[o])
    /\ pp.pc = "GenerateIC" =>
         "ic" \in DOMAIN pp.made /\ pp.made.ic = Component(pp.params.ic)
    /\ \A o \in DOMAIN pp.made : pp.made[o] = Component(pp.params[o])

\* An unknown energy integration under the energy equation has ended the
\* run, every other option being known.
C24_Witness ==
  /\ pp # <<>>
  /\ pp.pc = "raised"
  /\ pp.params.gas_eos = "energy_eqn"
  /\ pp.message[2] = "energy_integration"
  /\ DOMAIN pp.made = {"sph", "kernel", "neib_search", "sph_integration",
                       "gas_eos"}


\* A process has ended on a fatal path of main.
FatalEnd(p) == mainp.pc[p] \in {"exited", "aborted"}

\* No process raises before its exception handler has been told of MPI.
RaisesUnderMpi ==
  \A p \in Procs : mainp.pc[p] = "aborted" =>
    \E q \in Procs : mainp.mpi[q] = 1 /\ mainp.message[q] # ""

\* C25: in an MPI build set_mpi(1) comes before every statement of main
\* that can raise, and a fatal end of one process, the missing parameter
\* file included, leaves no process of the run behind.
C25_FatalAbortsAll ==
  /\ [](mainp # <<>> => RaisesUnderMpi)
  /\ (mainp # <<>> /\ \E p \in Procs : FatalEnd(p))
       ~> (\A q \in Procs : Ended(mainp.pc[q]))


\* Particle j is a neighbour of particle i of the check: within the kernel
\* range of i for a gather search, strictly within that of i or of j for a
\* search of all neighbours.
Neighbour(j) ==
  LET d == chk.partdata[j].r - chk.partdata[chk.i].r
      hi == chk.partdata[chk.i].h
      hj == chk.partdata[j].h
  IN IF chk.neibtype = "gather" THEN d * d <= 4 * hi * hi
     ELSE d * d < 4 * hi * hi \/ d * d < 4 * hj * hj

Occurrences(list, id) == Cardinality({k \in 1..Len(list) : list[k] = id})

\* C26: CheckValidNeighbourList raises 'Problem with neighbour lists'
\* exactly when some true neighbour of particle i is in neiblist not once
\* (never or several times); a list with every true neighbour once passes,
\* whatever other particles it holds.
C26_NeighbourListCheck ==
  chk # <<>> /\ chk.pc # "call" =>
    /\ chk.pc = "raised" <=>
         \E j \in DOMAIN chk.partdata :
           Neighbour(j) /\ Occurrences(chk.given, j) # 1
    /\ chk.pc = "raised" =>
         /\ chk.message[1] = "Problem with neighbour lists"
         /\ Neighbour(chk.message[2])
         /\ chk.message[3] = Occurrences(chk.given, chk.message[2])
    /\ chk.pc = "returned" => chk.neiblist = chk.given

\* A list with every true neighbour once and a particle out of range has
\* passed a search of all neighbours in which a particle lies exactly on
\* the edge of the kernel.
C26_Witness ==
  /\ chk # <<>>
  /\ chk.pc = "returned"
  /\ chk.neibtype = "all"
  /\ \E j \in DOMAIN chk.partdata :
       /\ ~Neighbour(j)
       /\ Occurrences(chk.given, j) = 1
       /\ (chk.partdata[j].r - chk.partdata[chk.i].r) = 2
       /\ chk.partdata[chk.i].h = 1


\* What FindLoadBalancingDivision has done so far.
BalanceOnce ==
  /\ lb.bodies <= 1
  /\ \A k \in 1..Len(lb.tests) : lb.tests[k] = <<0, 0>>
  /\ lb.pc \in {"while", "return", "returned"} => lb.bodies = 1
  /\ lb.pc = "returned" =>
       \/ lb.result = lb.in.r_old
       \/ /\ lb.workfrac = "low"
          /\ 2 * lb.result = lb.in.r_old + lb.in.bbmax
       \/ /\ lb.workfrac = "high"
          /\ 2 * lb.result = lb.in.bbmin + lb.in.r_old
  /\ lb.pc = "returned" /\ lb.workfrac = "low" =>
       2 * lb.result = lb.in.r_old + lb.in.bbmax

ImportedFrom(p, s) == {w \in xlog[p].wpart : w.Nproc = s}

\* C28: from sph->Ntot = Nsph + Nghost and no imported particles,
\* UnpackExported followed by GetBackExportInfo gives sph->Ntot,
\* NImportedParticles, tree->Ncelltot, Nimportedcell and tree->Ntot their
\* values of before the import, with the three assertions of
\* GetBackExportInfo true, the send buffer holding one record for every
\* imported particle in the order of the import, and Nimportedcell = 0 for
\* the next GetExportInfo.
C28_ImportRoundTrip ==
  \A p \in Procs :
    Returned(p) /\ xlog[p].Ntot = xsph[p].Nsph + xsph[p].Nghost =>
         /\ xsph[p].Ntot = xlog[p].Ntot
         /\ xsph[p].NImportedParticles = 0
         /\ xtree[p].Ncelltot = xlog[p].Ncell
         /\ xtree[p].Nimportedcell = 0
         /\ xtree[p].Ntot = InitialTree(xcfg, p).Ntot
         /\ \A s \in Procs :
              /\ Len(xmpi[p].back[s]) = Cardinality(ImportedFrom(p, s))
              /\ \A k \in 1..Len(xmpi[p].back[s]) :
                   \E w \in ImportedFrom(p, s) :
                     /\ Cardinality({v \in xlog[p].wpart : v.i < w.i})
                          = Cardinality({v \in xlog[p].wpart : v.Nproc < s})
                              + k - 1
                     /\ xmpi[p].back[s][k].data.iorig
                          = xsph[p].sphdata[w.i + 1].iorig


\* Process p has parsed its command line.
ArgumentsParsed(p) ==
  mainp.paramfile[p] # "" \/ mainp.cont[p] \/ mainp.read[p] # "none"
    \/ mainp.message[p] = "No parameter file specified"
    \/ mainp.pc[p] \in {"cont", "ReadParamsFile", "Run", "returned"}

\* C31: for every command line main either has a parameter file name from
\* the arguments (file, or -r file which also sets restart) or prints 'No
\* parameter file specified' and exits before the file cont is made, the
\* parameters are read or the simulation is made; it never reads the
\* parameters with an empty file name.
C31_ParameterFileOrExit ==
  mainp # <<>> =>
    \A p \in Procs : ArgumentsParsed(p) =>
      \/ /\ mainp.paramfile[p] # ""
         /\ mainp.restart[p] <=> mainp.cmd.argc = 3
         /\ mainp.read[p] \in {"none", mainp.paramfile[p]}
      \/ /\ mainp.paramfile[p] = ""
         /\ mainp.message[p] = "No parameter file specified"
         /\ mainp.pc[p] = "exited"
         /\ ~mainp.cont[p]
         /\ mainp.read[p] = "none"


\* The particle indices a tree holds.
IndexRange(t) == trees[t].ifirst .. trees[t].ilast

\* The routine of tree t has run in this step and has rebuilt it.
RebuiltNow(t) ==
  /\ bpc # "idle"
  /\ treeops[t] # <<>>
  /\ treeops[t][Len(treeops[t])] = "rebuild"

\* C32: after their rebuilds the main tree, the periodic-ghost tree and the
\* MPI-ghost tree hold the ranges [0, Nsph-1], [Nsph, Nsph+NPeriodicGhost-1]
\* and [Nsph+NPeriodicGhost, Nsph+NPeriodicGhost+Nmpighost-1] of the particle
\* array, with Ntot equal to Nsph, NPeriodicGhost and Nmpighost, and no
\* index is in two of the rebuilt trees.
C32_DisjointRanges ==
  /\ RebuiltNow("tree") =>
       /\ IndexRange("tree") = 0 .. (bsph.Nsph - 1)
       /\ trees["tree"].Ntot = bsph.Nsph
  /\ RebuiltNow("ghosttree") =>
       /\ IndexRange("ghosttree")
            = bsph.Nsph .. (bsph.Nsph + bsph.NPeriodicGhost - 1)
       /\ trees["ghosttree"].Ntot = bsph.NPeriodicGhost
  /\ RebuiltNow("mpighosttree") =>
       /\ IndexRange("mpighosttree")
            = (bsph.Nsph + bsph.NPeriodicGhost)
                .. (bsph.Nsph + bsph.NPeriodicGhost + bsph.Nmpighost - 1)
       /\ trees["mpighosttree"].Ntot = bsph.Nmpighost
  /\ \A t, u \in TreeNames :
       t # u /\ RebuiltNow(t) /\ RebuiltNow(u) =>
         IndexRange(t) \cap IndexRange(u) = {}
  /\ \A t \in TreeNames :
       RebuiltNow(t) => Cardinality(IndexRange(t)) = trees[t].Ntot

\* All three trees have been rebuilt in a later step, with a periodic and
\* an MPI ghost behind the real particles.
C32_Witness ==
  /\ bpc = "StepDone"
  /\ bargs.n > 0
  /\ \A t \in TreeNames : RebuiltNow(t)
  /\ bsph.NPeriodicGhost = 1
  /\ bsph.Nmpighost = 1
  /\ bsph.Nsph = MaxNsphB

\* The walk has moved from one iteration to the next of the same pass.
SamePassStep ==
  wk # <<>> /\ wk' # <<>> /\ wk.pc = "walk" /\ wk'.pc = "walk"
    /\ wk'.pass = wk.pass

WalkedOnce == wk # <<>> => \A c \in DOMAIN wk.visits : wk.visits[c] <= 1

\* C33: every skip-pointer walk terminates and visits each cell at most
\* once: no cell is the subject of two iterations of one walk, the cell
\* cursor is strictly greater after every iteration, and every walk that
\* was started returns.
C33_WalksTerminate ==
  /\ []WalkedOnce
  /\ [][SamePassStep => wk'.c > wk.c]_vars
  /\ (wk # <<>> ~> wk.pc = "returned")

\* The same, of the walks that are bounded by the Ncell of the tree they
\* walk.
BoundedByTree ==
  \/ wk = <<>>
  \/ wk.fn # "FindMpiTransferParticles"
  \/ wk.Ncell = wk.tree.Ncell
WalksOfTreeTerminate ==
  /\ [](BoundedByTree => WalkedOnce)
  /\ [][BoundedByTree /\ SamePassStep => wk'.c > wk.c]_vars
  /\ ((wk # <<>> /\ BoundedByTree) ~> wk.pc = "returned")

\* The particles of the local tree inside the domain of node n.
InsideDomain(n) ==
  {i \in 0 .. (Len(wk.parts) - 1) : ParticleInBox(wk.parts[i + 1], NodeDomain(n))}

SeqSet(q) == {q[j] : j \in 1..Len(q)}

\* C37: when FindMpiTransferParticles returns, particles_to_export[node]
\* holds, once each, exactly the particles of the local tree inside the
\* domain of node, for each node of potential_nodes, and
\* all_particles_to_export holds exactly the same indices, once each.
C37_TransferExact ==
  (wk # <<>> /\ wk.fn = "FindMpiTransferParticles" /\ wk.pc = "returned") =>
    /\ \A j \in 1..Len(wk.potential_nodes) :
         LET n == wk.potential_nodes[j]
         IN /\ SeqSet(wk.particles_to_export[n]) = InsideDomain(n)
            /\ Len(wk.particles_to_export[n]) = Cardinality(InsideDomain(n))
    /\ SeqSet(wk.export_list)
         = UNION {InsideDomain(wk.potential_nodes[j]) :
                    j \in 1..Len(wk.potential_nodes)}
    /\ Len(wk.export_list) = Cardinality(SeqSet(wk.export_list))

\* The same, of the calls whose Ncell holds the Ncell of the tree.
TransferExactOfTree ==
  (wk # <<>> /\ wk.Ncell = wk.tree.Ncell) => C37_TransferExact

\* The entries 0..Ngravcell-1 of the interaction list worker t holds for
\* its current cell.
InteractionList(t) == ComputeCellForces(eth[t].Ngravcell, eth[t].gravcelllist)

\* C34: in UpdateGravityExportList the distant-cell interaction list of an
\* active cell holds only cells gathered for that same cell from peers that
\* did not answer -1: the count is 0 when the peer loop of a cell begins and
\* every counted entry was written for the cell by such a peer.
C34_ListOfSameCell ==
  (ert = "gravity" /\ epc = "parallel") =>
    \A t \in Threads :
      eth[t].pc \in {"peer", "append"} =>
        LET cell == ComputeActiveCellList(ecfg)[eth[t].cc + 1]
        IN /\ eth[t].j = 0 => eth[t].Ngravcell = 0
           /\ \A n \in 1..eth[t].Ngravcell :
                /\ InteractionList(t)[n].cell = cell
                /\ InteractionList(t)[n].peer \in Procs \ {rank}
                /\ InteractionList(t)[n].peer \notin ecfg.close[cell]

\* What does hold of the list: an entry that a walk wrote comes from a peer
\* other than rank that did not answer -1 for the entry's cell.
WrittenByDistantPeer ==
  (ert = "gravity" /\ epc = "parallel") =>
    \A t \in Threads :
      \A n \in 1..Len(eth[t].gravcelllist) :
        LET e == eth[t].gravcelllist[n]
        IN e # GarbageEntry =>
             e.peer \in Procs \ {rank} /\ e.peer \notin ecfg.close[e.cell]

\* C35: BuildPrunedTree never writes beyond the allocated cells of the
\* pruned tree: for either cell type and every pruning level, the number of
\* cells of the local tree with level <= pruning_level, which is the final
\* cnew, is at most prunedtree[rank]->Ncellmax = 2^(pruning_level+1) - 1.
C35_PrunedWithinAllocation ==
  ppc = "pruned" =>
    /\ prunedtree[rank].Ncellmax = Pow2(pruning_level + 1) - 1
    /\ Len(KeptCells(pruning_level)) <= prunedtree[rank].Ncellmax

\* The same, of the local trees of binary cells.
BinaryWithinAllocation ==
  (ppc = "pruned" /\ ptree.Ncell = Pow2(ptree.ltot + 1) - 1) =>
    Len(KeptCells(pruning_level)) <= prunedtree[rank].Ncellmax

\* C36: during SearchBoundaryGhostParticles the ghosts never outnumber the
\* spare capacity in an intermediate state: unless the capacity error has
\* been raised, Nsph + Nghost <= Nsphmax and no ghost has been written at
\* an index >= Nsphmax.
C36_NeverBeyondCapacity ==
  (GhostCallBegun /\ gpc.at # "raised") =>
    /\ gsph.Nsph + gsph.Nghost <= gsph.Nsphmax
    /\ Len(gpart) <= gsph.Nsphmax

\* What does hold in the intermediate states: the ghosts are written
\* densely behind the real particles, at Nsph .. Nsph+Nghost-1.
GhostsDense ==
  GhostCallBegun => CountedGhosts \subseteq 0 .. (Len(gpart) - 1)

\* The particles process p sent to some peer: the indices of
\* ids_sent_particles[q] for q other than p.
SentParticles(p) ==
  UNION { {xmpi[p].ids_sent_particles[q][n] :
             n \in 1..Len(xmpi[p].ids_sent_particles[q])} :
          q \in Procs \ {p} }

\* A step that is the call of UnpackReturnedExportInfo on process p.
UnpacksReturned(p) ==
  xcfg.nact # <<>> /\ xpc[p] = "reconcile" /\ xpc'[p] # "reconcile"

UnpackReturnedFrame ==
  \A p \in Procs :
    UnpacksReturned(p) =>
      /\ xtree' = xtree /\ xmpi' = xmpi
      /\ \A q \in Procs \ {p} : xsph'[q] = xsph[q]
      /\ [xsph'[p] EXCEPT !.sphdata = <<>>] = [xsph[p] EXCEPT !.sphdata = <<>>]
      /\ Len(xsph'[p].sphdata) = Len(xsph[p].sphdata)
      /\ \A k \in 1..Len(xsph[p].sphdata) :
           LET before == xsph[p].sphdata[k]
               after == xsph'[p].sphdata[k]
           IN /\ after.iorig = before.iorig
              /\ after.pos = before.pos
              /\ after.levelneib >= before.levelneib
              /\ (k - 1) \notin SentParticles(p) => after = before

\* C38: UnpackReturnedExportInfo modifies only the particles listed in
\* ids_sent_particles[p] for p other than rank, and of those only the
\* summed fields and levelneib: the origin id and the fields that are no
\* results are as before, as is every particle that was not sent, the tree
\* and the lists; levelneib never decreases.
C38_UnpackReturnedFrame == [][UnpackReturnedFrame]_vars

\* C38 witness: a process whose call added what it read for a particle it
\* sent to that particle's sums while another of its particles was not sent.
C38_Witness ==
  \E p \in Procs :
    /\ Reconciled(p)
    /\ xlog[p].applied # <<>>
    /\ \E k \in 1..Len(xsph[p].sphdata) : (k - 1) \notin SentParticles(p)
    /\ \E e \in {xlog[p].applied[n] : n \in 1..Len(xlog[p].applied)} :
         /\ e.received.res["gpot"] # 0
         /\ xsph[p].sphdata[e.j + 1].res["gpot"]
              # LocalParticle(xcfg, p, e.j).res["gpot"]

\* A step that is a call of GetExportInfo for the peer enproc.
PacksForPeer == epc = "joined" /\ epack' # epack

GetExportInfoFrame ==
  PacksForPeer =>
    /\ sphdata' = sphdata /\ ecfg' = ecfg
    /\ cellexportlist' = cellexportlist
    /\ Ncellexport' = Ncellexport /\ Npartexport' = Npartexport
    /\ \A j \in Procs \ {enproc} :
         ids_sent_particles'[j] = ids_sent_particles[j]
    /\ epack'.ret = send_buffer'.size - send_buffer.size
    /\ Len(send_buffer'.writes) >= Len(send_buffer.writes)
    /\ SubSeq(send_buffer'.writes, 1, Len(send_buffer.writes))
         = send_buffer.writes
    /\ \A n \in (Len(send_buffer.writes) + 1) .. Len(send_buffer'.writes) :
         send_buffer'.writes[n].off >= send_buffer.size

\* C39: GetExportInfo leaves the particle array, the cells and the export
\* lists as they are (ifirst and ilast are rewritten in the copy of the
\* cell in the send buffer only); it writes no byte below the old size of
\* send_buffer, returns the number of bytes send_buffer has grown by, and
\* changes ids_sent_particles for the destination Nproc only.
C39_GetExportInfoFrame == [][GetExportInfoFrame]_vars

\* C39 witness: the message for a second peer was packed behind that of a
\* first, both with a cell, and both peers have their list of sent ids.
C39_Witness ==
  /\ epack.Nproc # -1
  /\ epack.old_size > 0
  /\ epack.cactive > 0
  /\ \E j \in Procs \ {epack.Nproc} : ids_sent_particles[j] # <<>>
  /\ ids_sent_particles[epack.Nproc] # <<>>
  /\ \E n \in 1..Len(send_buffer.writes) :
       /\ send_buffer.writes[n].kind = "cell"
       /\ send_buffer.writes[n].off >= epack.old_size
       /\ send_buffer.writes[n].ifirst
            # ComputeActiveParticleList(ecfg, send_buffer.writes[n].id)[1]

LastCall == IF mem.calls = <<>> THEN "none" ELSE mem.calls[Len(mem.calls)]

\* C40: DeallocateMemory releases every buffer AllocateMemory allocated and
\* leaves allocated_buffer false: after any sequence of calls no block has
\* been lost, none has been freed twice, after DeallocateMemory no buffer
\* is live, and after AllocateMemory every buffer is.
C40_BuffersReleased ==
  mem # <<>> =>
    /\ mem.lost = {}
    /\ mem.invalid = {}
    /\ (~mem.destroyed /\ LastCall = "DeallocateMemory") =>
         /\ ~mem.allocated_buffer
         /\ \A b \in Buffers : mem.heap[b] # "live"
    /\ (~mem.destroyed /\ LastCall = "AllocateMemory") =>
         /\ mem.allocated_buffer
         /\ \A b \in Buffers : mem.heap[b] = "live"

\* What does hold: AllocateMemory on a fresh object makes every buffer
\* once, and a second AllocateMemory in a row makes none.
AllocatesOnce ==
  (mem # <<>> /\ ~mem.destroyed /\ mem.calls # <<>>
     /\ \A n \in 1..Len(mem.calls) : mem.calls[n] = "AllocateMemory") =>
    /\ mem.allocated_buffer
    /\ mem.lost = {} /\ mem.invalid = {}
    /\ \A b \in Buffers : mem.heap[b] = "live"
    /\ \A t \in Threads : mem.Nneibmaxbuf[t] = Max(1, 4 * mem.Ngather)

=============================================================================
